---------------------------- MODULE Spec2Model ----------------------------
(***************************************************************************)
(* Model of the multi-agent coordination core of projet-multi-agent:       *)
(*   - communication/message_bus.py   MessageBus (dict of queues, history) *)
(*   - agents/base_agent.py           Agent (state machine, send/receive)  *)
(*   - agents/agent_manager.py        AgentManager (registry, bulk ops)    *)
(*   - backend/communication/message_bus.py, backend/agents/base_agent.py  *)
(*     the threaded bus and the threaded BaseAgent (listener loop)         *)
(*                                                                         *)
(* Python objects are modelled with reference semantics: a message dict is *)
(* a cell of `heap`, a payload dict a cell of `payloads`; queues hold      *)
(* references, dict.copy() makes a new top-level record that still shares  *)
(* the payload reference.                                                  *)
(***************************************************************************)
EXTENDS Integers, Sequences, FiniteSets, TLC

\* ------------------------------------------------------------------ bounds
MaxMsgs == 3      \* message dicts ever constructed
MaxThreads == 2   \* listener threads ever spawned per threaded agent

\* ------------------------------------------------------------- input sets
BusNames == {"A", "B"}               \* names a caller may use on the bus
AgentObjs == {"a1", "a2", "a3"}      \* Agent instances; a3 is a second instance named "A"
TAgents == {"ChefProjet", "DataEngineer"}   \* threaded BaseAgent instances, by name
TNames == TAgents \cup {"Frontend"}  \* names used on the backend bus
\* the four agents frontend/app.py constructs, and every name on its bus
BackendAgents == TAgents \cup {"Analyste", "ModelisateurML"}
BackendNames == BackendAgents \cup {"Frontend"}
Tasks == {"echo", "boom"}
PayRefs == {1}                       \* payload dict objects owned by callers
PayVals == {0, 1}                    \* content of a payload dict ({"x": v})
ErrTexts == {"", "boom"}             \* str(e) of an exception raised by process_task
None == "None"
NoTs == -1                           \* key "bus_timestamp" absent
NoMsg == 0                           \* get_message returned None (no message reference)
NoId == <<>>                         \* send_message returned None (no message id)

NameOf(a) == CASE a = "a1" -> "A" [] a = "a2" -> "B" [] OTHER -> "A"

VARIABLES
  impl,               \* which of the two systems this process runs: "socle"
                      \* (agents/, communication/) or "backend" (backend/)
  queues,             \* MessageBus.queues: name -> sequence of message refs
  registered_agents,  \* MessageBus.registered_agents: list of names
  history,            \* MessageBus.history: list of message records (copies)
  heap,               \* message dicts, by reference
  payloads,           \* payload dicts, by reference: PayRefs -> PayVals
  now,                \* datetime.now(), in milliseconds (the calls modelled here fall in one tick)
  agents,             \* AgentManager.agents: insertion-ordered list of Agent instances
  astate,             \* Agent.state
  abus,               \* Agent.message_bus is set (TRUE) or None (FALSE)
  ret,                \* the last call: operation, arguments, returned value
  sentLog,            \* every successfully routed message, in routing order
  recvLog,            \* per name, the messages get_message returned for it, in order
  everStarted,        \* Agent / BaseAgent instances on which start() was ever called
  agent_queues,       \* backend MessageBus.agent_queues: name -> sequence of messages
  message_history,    \* backend MessageBus.message_history
  total_messages,     \* backend MessageBus.stats["total_messages"]
  is_running,         \* BaseAgent.is_running
  listener_thread,    \* BaseAgent.listener_thread: 0 (None) or the index of a thread
  threads,            \* per BaseAgent, the listener threads spawned so far
  joining,            \* the BaseAgent whose stop() is inside join(timeout=2), or None
  routedLog,          \* backend: every successfully routed message, in routing order
  gotLog,             \* backend: per name, the ids receive_message returned, in order
  lock,               \* backend MessageBus.lock: 0 (free) or the caller thread holding it
  bus_calls           \* per caller thread, the bus call it is inside and its position

mvars == <<queues, registered_agents, history, heap, payloads, now, agents,
           astate, abus, sentLog, recvLog>>

tvars == <<agent_queues, message_history, total_messages, is_running,
           listener_thread, threads, joining, routedLog, gotLog, lock, bus_calls>>

vars == <<impl, mvars, tvars, ret, everStarted>>

\* ---------------------------------------------------------------- helpers
Range(s) == {s[i] : i \in 1..Len(s)}

RECURSIVE SelectSeqBy(_, _)
\* the subsequence of s whose elements are in set S
SelectSeqBy(s, S) ==
  IF s = <<>> THEN <<>>
  ELSE IF Head(s) \in S THEN <<Head(s)>> \o SelectSeqBy(Tail(s), S)
       ELSE SelectSeqBy(Tail(s), S)

IsPrefix(s, t) == Len(s) <= Len(t) /\ SubSeq(t, 1, Len(s)) = s

RemoveFirst(s, x) ==
  LET i == CHOOSE k \in 1..Len(s) : s[k] = x /\ \A j \in 1..(k-1) : s[j] # x
  IN SubSeq(s, 1, i-1) \o SubSeq(s, i+1, Len(s))

\* the bus as one value: the part of the state MessageBus methods read and write
World == [queues |-> queues, registered_agents |-> registered_agents,
          history |-> history, heap |-> heap]

SetWorld(w) ==
  /\ queues' = w.queues
  /\ registered_agents' = w.registered_agents
  /\ history' = w.history
  /\ heap' = w.heap

\* ------------------------------------------- communication/message_bus.py
\* MessageBus.__init__
MessageBus_init == [queues |-> <<>>, registered_agents |-> <<>>,
                    history |-> <<>>, heap |-> <<>>]

\* mutant of MessageBus.register_agent: the "not in self.queues" test is
\* missing, so a second registration makes a new queue and lists the name again
MessageBus_register_agent_reset(w, agent_name) ==
  [w |-> [w EXCEPT !.queues = (agent_name :> <<>>) @@ w.queues,
                   !.registered_agents = Append(@, agent_name)],
   ret |-> None, log |-> "Agent enregistre"]

\* MessageBus.register_agent: returns None on both branches; only the printed
\* line differs
MessageBus_register_agent(w, agent_name) ==
  IF agent_name \notin DOMAIN w.queues
  THEN [w |-> [w EXCEPT !.queues = (agent_name :> <<>>) @@ w.queues,
                        !.registered_agents = Append(@, agent_name)],
        ret |-> None, log |-> "Agent enregistre"]
  ELSE [w |-> w, ret |-> None, log |-> "Agent deja enregistre"]

\* mutant of MessageBus.unregister_agent: the name leaves the list of
\* registered agents but its queue is kept
MessageBus_unregister_agent_keepqueue(w, agent_name) ==
  IF agent_name \in DOMAIN w.queues
  THEN [w |-> [w EXCEPT !.registered_agents = RemoveFirst(@, agent_name)],
        ret |-> None, log |-> "Agent desenregistre"]
  ELSE [w |-> w, ret |-> None, log |-> ""]

\* MessageBus.unregister_agent
MessageBus_unregister_agent(w, agent_name) ==
  IF agent_name \in DOMAIN w.queues
  THEN [w |-> [w EXCEPT
                 !.queues = [n \in DOMAIN w.queues \ {agent_name} |-> w.queues[n]],
                 !.registered_agents = RemoveFirst(@, agent_name)],
        ret |-> None, log |-> "Agent desenregistre"]
  ELSE [w |-> w, ret |-> None, log |-> ""]

\* message.copy() of the dict at reference r: a new, unshared top-level record
\* whose payload field is still the same payload reference
DictCopy(h, r) == h[r]

\* mutant of MessageBus.send_message: the history entry is written before
\* the recipient is looked up, and at the front of the list
MessageBus_send_message_logfirst(w, to_agent, r, t) ==
  LET h1 == [w.heap EXCEPT ![r].bus_timestamp = t]
      w1 == [w EXCEPT !.history = <<DictCopy(h1, r)>> \o @]
  IN IF to_agent \notin DOMAIN w.queues
     THEN [w |-> w1, ret |-> FALSE]
     ELSE [w |-> [w1 EXCEPT !.heap = h1, !.queues[to_agent] = Append(@, r)],
           ret |-> TRUE]

\* MessageBus.send_message(to_agent, message): message is the reference r
MessageBus_send_message(w, to_agent, r, t) ==
  IF to_agent \notin DOMAIN w.queues
  THEN [w |-> w, ret |-> FALSE]
  ELSE LET h1 == [w.heap EXCEPT ![r].bus_timestamp = t]
       IN [w |-> [w EXCEPT !.heap = h1,
                           !.queues[to_agent] = Append(@, r),
                           !.history = Append(@, DictCopy(h1, r))],
           ret |-> TRUE]

\* mutant of MessageBus.get_message: the head of the queue is returned but
\* left in the queue
MessageBus_get_message_peek(w, agent_name, timeout) ==
  IF agent_name \notin DOMAIN w.queues
  THEN [w |-> w, ret |-> NoMsg]
  ELSE IF w.queues[agent_name] = <<>>
       THEN [w |-> w, ret |-> NoMsg]
       ELSE [w |-> w, ret |-> Head(w.queues[agent_name])]

\* mutant of MessageBus.get_message: the queue is read from its tail
\* (a LifoQueue in place of Queue)
MessageBus_get_message_lifo(w, agent_name, timeout) ==
  IF agent_name \notin DOMAIN w.queues
  THEN [w |-> w, ret |-> NoMsg]
  ELSE IF w.queues[agent_name] = <<>>
       THEN [w |-> w, ret |-> NoMsg]
       ELSE [w |-> [w EXCEPT !.queues[agent_name] = SubSeq(@, 1, Len(@) - 1)],
             ret |-> w.queues[agent_name][Len(w.queues[agent_name])]]

\* MessageBus.get_message: get_nowait() / get(timeout) on an empty queue both
\* end in Empty, hence None
MessageBus_get_message(w, agent_name, timeout) ==
  IF agent_name \notin DOMAIN w.queues
  THEN [w |-> w, ret |-> NoMsg]
  ELSE IF w.queues[agent_name] = <<>>
       THEN [w |-> w, ret |-> NoMsg]
       ELSE [w |-> [w EXCEPT !.queues[agent_name] = Tail(@)],
             ret |-> Head(w.queues[agent_name])]

\* MessageBus.get_queue_size
MessageBus_get_queue_size(w, agent_name) ==
  IF agent_name \notin DOMAIN w.queues THEN 0 ELSE Len(w.queues[agent_name])

\* the list comprehension [m for m in filtered if m.get(key) == value]
RECURSIVE FilterBy(_, _, _)
FilterBy(s, key, value) ==
  IF s = <<>> THEN <<>>
  ELSE IF Head(s)[key] = value THEN <<Head(s)>> \o FilterBy(Tail(s), key, value)
       ELSE FilterBy(Tail(s), key, value)

\* the truth value Python gives a filter argument: None and "" are false
Truthy(x) == x # None /\ x # ""

\* MessageBus.get_history(limit, from_agent, to_agent). limit is
\* [given |-> FALSE] for None and [given |-> TRUE, n |-> L] for the integer L
\* (L >= 0 here); "if limit:" is false for None and for 0. s[-n:] is the last
\* n elements, all of s when n > len(s).
MessageBus_get_history(w, limit, from_agent, to_agent) ==
  LET f0 == w.history
      f1 == IF Truthy(from_agent) THEN FilterBy(f0, "from", from_agent) ELSE f0
      f2 == IF Truthy(to_agent) THEN FilterBy(f1, "to", to_agent) ELSE f1
  IN IF limit.given /\ limit.n # 0
     THEN SubSeq(f2, IF Len(f2) > limit.n THEN Len(f2) - limit.n + 1 ELSE 1, Len(f2))
     ELSE f2

\* MessageBus.clear_history
MessageBus_clear_history(w) == [w EXCEPT !.history = <<>>]

\* MessageBus.get_stats
MessageBus_get_stats(w) ==
  [registered_agents |-> Len(w.registered_agents),
   agents |-> w.registered_agents,
   total_messages_sent |-> Len(w.history),
   pending_messages |-> [n \in Range(w.registered_agents) |->
                           MessageBus_get_queue_size(w, n)]]

RECURSIVE UnregisterEach(_, _)
UnregisterEach(w, names) ==
  IF names = <<>> THEN w
  ELSE UnregisterEach(MessageBus_unregister_agent(w, Head(names)).w, Tail(names))

\* list(self.queues.keys()): the keys in insertion order
QueueKeys(w) == w.registered_agents

\* MessageBus.reset
MessageBus_reset(w) == MessageBus_clear_history(UnregisterEach(w, QueueKeys(w)))

\* ------------------------------------------------- agents/base_agent.py
\* Agent._generate_message_id: f"msg_{self.name}_{timestamp}"
Agent_generate_message_id(a, t) == <<"msg", NameOf(a), t>>

\* mutant of the dict literal of Agent.send_message: "from" and "to" are
\* filled the wrong way round
AgentMessage_swapped(a, to_agent, task, p, priority, t) ==
  [message_id |-> Agent_generate_message_id(a, t), timestamp |-> t,
   from |-> to_agent, to |-> NameOf(a), task |-> task, payload |-> p,
   priority |-> priority, bus_timestamp |-> NoTs]

\* the dict literal built in Agent.send_message
AgentMessage(a, to_agent, task, p, priority, t) ==
  [message_id |-> Agent_generate_message_id(a, t), timestamp |-> t,
   from |-> NameOf(a), to |-> to_agent, task |-> task, payload |-> p,
   priority |-> priority, bus_timestamp |-> NoTs]

\* the dict at reference r, the newest cell, is dropped from the heap when no
\* queue refers to it (a dict the bus rejected is garbage once the call is over)
Collect(w, r) ==
  IF \E n \in DOMAIN w.queues : r \in Range(w.queues[n]) THEN w
  ELSE [w EXCEPT !.heap = SubSeq(@, 1, r - 1)]

\* Agent.send_message: the result of the bus's send_message is not looked at
Agent_send_message(w, a, bound, to_agent, task, p, priority, t) ==
  IF ~bound
  THEN [w |-> w, ret |-> NoId]
  ELSE LET r == Len(w.heap) + 1
           m == AgentMessage(a, to_agent, task, p, priority, t)
           w1 == [w EXCEPT !.heap = Append(@, m)]
           o == MessageBus_send_message(w1, to_agent, r, t)
       IN [w |-> Collect(o.w, r), ret |-> m.message_id]

\* Agent.receive_message
Agent_receive_message(w, a, bound, timeout) ==
  IF ~bound THEN [w |-> w, ret |-> NoMsg]
  ELSE MessageBus_get_message(w, NameOf(a), timeout)

\* mutant of Agent.handle_message: the state is not set back to "idle" when
\* process_task returns
Agent_handle_message_noidle(outcome) ==
  IF outcome.raises
  THEN [state |-> "error", trace |-> <<"processing", "error">>, raised |-> FALSE,
        ret |-> [status |-> "error", error |-> outcome.text]]
  ELSE [state |-> "processing", trace |-> <<"processing">>, raised |-> FALSE,
        ret |-> outcome.result]

\* Agent.handle_message; outcome is what process_task does: it returns a
\* result, or it raises an Exception e with str(e) = outcome.text
Agent_handle_message(outcome) ==
  IF outcome.raises
  THEN [state |-> "error", trace |-> <<"processing", "error">>, raised |-> FALSE,
        ret |-> [status |-> "error", error |-> outcome.text]]
  ELSE [state |-> "idle", trace |-> <<"processing", "idle">>, raised |-> FALSE,
        ret |-> outcome.result]

\* Agent.handle_message(message) for whatever receive_message returned: the
\* log line of line 85 evaluates message.get('task') before the try, so for
\* None (NoMsg) an AttributeError leaves handle_message with the state as it
\* was; for a dict the call is Agent_handle_message
Agent_handle_message_of(st, msg, outcome) ==
  IF msg = NoMsg
  THEN [state |-> st, trace |-> <<>>, raised |-> TRUE,
        ret |-> [status |-> "none"]]
  ELSE Agent_handle_message(outcome)

\* what process_task may do with a task: the concrete agents return a
\* success result for a known task and an error-status result for an unknown
\* one; any of them may raise
Outcomes ==
  {[raises |-> FALSE, result |-> [status |-> s], text |-> ""] : s \in {"success", "error"}}
  \cup {[raises |-> TRUE, result |-> [status |-> "none"], text |-> e] : e \in ErrTexts}

\* Agent.get_status
Agent_get_status(a, st, t) == [name |-> NameOf(a), state |-> st, timestamp |-> t]

\* mutant of Agent.start: the state is left as it is
Agent_start_noop(st) == st

\* Agent.start
Agent_start(st) == "idle"

\* mutant of Agent.stop: only an agent that is not idle is marked stopped
Agent_stop_unlessidle(st) == IF st = "idle" THEN st ELSE "stopped"

\* Agent.stop
Agent_stop(st) == "stopped"

\* ------------------------------------------------- agents/agent_manager.py
\* the manager as one value: its bus, its registry and the agents it touches
Mgr == [w |-> World, agents |-> agents, astate |-> astate, abus |-> abus]

SetMgr(m) ==
  /\ SetWorld(m.w)
  /\ agents' = m.agents
  /\ astate' = m.astate
  /\ abus' = m.abus

\* self.agents.keys(), in insertion order
AgentKeys(ags) == [i \in 1..Len(ags) |-> NameOf(ags[i])]

\* self.agents[agent_name]
AgentNamed(ags, n) == CHOOSE a \in Range(ags) : NameOf(a) = n

\* mutant of AgentManager.register_agent: the bus is bound into the agent
\* before the name is looked up in the registry
AgentManager_register_agent_bindfirst(m, agent) ==
  IF agent = None THEN [m |-> m, ret |-> FALSE]
  ELSE LET m1 == [m EXCEPT !.abus[agent] = TRUE]
       IN IF NameOf(agent) \in Range(AgentKeys(m.agents)) THEN [m |-> m1, ret |-> FALSE]
          ELSE [m |-> [m1 EXCEPT !.w = MessageBus_register_agent(m.w, NameOf(agent)).w,
                                 !.agents = Append(@, agent)],
                ret |-> TRUE]

\* AgentManager.register_agent
AgentManager_register_agent(m, agent) ==
  IF agent = None THEN [m |-> m, ret |-> FALSE]
  ELSE IF NameOf(agent) \in Range(AgentKeys(m.agents)) THEN [m |-> m, ret |-> FALSE]
  ELSE [m |-> [m EXCEPT !.w = MessageBus_register_agent(m.w, NameOf(agent)).w,
                        !.abus[agent] = TRUE,
                        !.agents = Append(@, agent)],
        ret |-> TRUE]

\* mutant of AgentManager.unregister_agent: the "not in self.agents" test is
\* missing, so an unknown name is passed on to the bus and reported as done
AgentManager_unregister_agent_nocheck(m, agent_name) ==
  LET w1 == MessageBus_unregister_agent(m.w, agent_name).w
  IN IF agent_name \notin Range(AgentKeys(m.agents))
     THEN [m |-> [m EXCEPT !.w = w1], ret |-> TRUE]
     ELSE LET a == AgentNamed(m.agents, agent_name)
          IN [m |-> [m EXCEPT !.astate[a] = Agent_stop(@), !.w = w1,
                              !.agents = RemoveFirst(@, a)],
              ret |-> TRUE]

\* AgentManager.unregister_agent
AgentManager_unregister_agent(m, agent_name) ==
  IF agent_name \notin Range(AgentKeys(m.agents)) THEN [m |-> m, ret |-> FALSE]
  ELSE LET a == AgentNamed(m.agents, agent_name)
       IN [m |-> [m EXCEPT !.astate[a] = Agent_stop(@),
                           !.w = MessageBus_unregister_agent(m.w, agent_name).w,
                           !.agents = RemoveFirst(@, a)],
           ret |-> TRUE]

\* AgentManager.start_all
AgentManager_start_all(m) ==
  [m EXCEPT !.astate = [a \in DOMAIN m.astate |->
                          IF a \in Range(m.agents) THEN Agent_start(m.astate[a])
                          ELSE m.astate[a]]]

\* AgentManager.stop_all
AgentManager_stop_all(m) ==
  [m EXCEPT !.astate = [a \in DOMAIN m.astate |->
                          IF a \in Range(m.agents) THEN Agent_stop(m.astate[a])
                          ELSE m.astate[a]]]

\* one pass of the loop of start_all / stop_all without its try/except: the
\* first call that raises ends the loop and the exception leaves the method
RECURSIVE BulkLoop_notry(_, _, _, _, _)
BulkLoop_notry(st, todo, failing, op, calls) ==
  IF todo = <<>> THEN [astate |-> st, calls |-> calls, escaped |-> FALSE]
  ELSE LET a == Head(todo)
       IN IF a \in failing
          THEN [astate |-> st, calls |-> Append(calls, a), escaped |-> TRUE]
          ELSE BulkLoop_notry([st EXCEPT ![a] = IF op = "start" THEN Agent_start(@)
                                                 ELSE Agent_stop(@)],
                              Tail(todo), failing, op, Append(calls, a))

\* the loop of AgentManager.start_all / stop_all over self.agents.items(),
\* where the agents of `failing` are of a subclass whose start() / stop()
\* raises an Exception before it changes the state: the except clause
\* swallows it and the loop goes on. calls lists the agents called, in order.
RECURSIVE BulkLoop(_, _, _, _, _)
BulkLoop(st, todo, failing, op, calls) ==
  IF todo = <<>> THEN [astate |-> st, calls |-> calls, escaped |-> FALSE]
  ELSE LET a == Head(todo)
       IN BulkLoop(IF a \in failing THEN st
                   ELSE [st EXCEPT ![a] = IF op = "start" THEN Agent_start(@)
                                          ELSE Agent_stop(@)],
                   Tail(todo), failing, op, Append(calls, a))

\* AgentManager.get_all_status
AgentManager_get_all_status(m, t) ==
  [n \in Range(AgentKeys(m.agents)) |->
     LET a == AgentNamed(m.agents, n) IN Agent_get_status(a, m.astate[a], t)]

\* the dict literal built in AgentManager.send_broadcast
BroadcastMessage(agent_name, task, p, t) ==
  [message_id |-> <<"broadcast", t \div 1000>>, timestamp |-> t,
   from |-> "AgentManager", to |-> agent_name, task |-> task, payload |-> p,
   priority |-> None, bus_timestamp |-> NoTs]

RECURSIVE BroadcastLoop(_, _, _, _, _, _)
\* the for loop of AgentManager.send_broadcast over the remaining keys
BroadcastLoop(w, keys, task, p, exclude, t) ==
  IF keys = <<>> THEN w
  ELSE IF Head(keys) \in exclude
       THEN BroadcastLoop(w, Tail(keys), task, p, exclude, t)
       ELSE LET r == Len(w.heap) + 1
                w1 == [w EXCEPT !.heap = Append(@, BroadcastMessage(Head(keys), task, p, t))]
                o == MessageBus_send_message(w1, Head(keys), r, t)
            IN BroadcastLoop(Collect(o.w, r), Tail(keys), task, p, exclude, t)

\* AgentManager.send_broadcast
AgentManager_send_broadcast(m, task, p, exclude, t) ==
  [m EXCEPT !.w = BroadcastLoop(m.w, AgentKeys(m.agents), task, p, exclude, t)]

\* mutant of AgentManager.shutdown: the bus is reset before the agents are
\* stopped
AgentManager_shutdown_steps_resetfirst(m) ==
  LET m1 == [m EXCEPT !.w = MessageBus_reset(m.w)]
  IN <<m1, AgentManager_stop_all(m1)>>

\* the manager after each of the two statements of AgentManager.shutdown:
\* self.stop_all(), then self.message_bus.reset()
AgentManager_shutdown_steps(m) ==
  LET m1 == AgentManager_stop_all(m)
  IN <<m1, [m1 EXCEPT !.w = MessageBus_reset(m1.w)]>>

\* AgentManager.shutdown
AgentManager_shutdown(m) == AgentManager_shutdown_steps(m)[2]

\* ---------------------------------- backend/communication/message_bus.py
\* MessageBus.__init__ with every BaseAgent constructed: BaseAgent.__init__
\* registers its name on the singleton bus
BackendBus_init == [agent_queues |-> [a \in BackendAgents |-> <<>>],
                    message_history |-> <<>>, total_messages |-> 0]

\* MessageBus.register_agent (under self.lock): returns None on both
\* branches and prints only when it creates the queue
BackendBus_register_agent(b, agent_name) ==
  IF agent_name \notin DOMAIN b.agent_queues
  THEN [b |-> [b EXCEPT !.agent_queues = (agent_name :> <<>>) @@ b.agent_queues],
        ret |-> None, log |-> "Agent enregistre"]
  ELSE [b |-> b, ret |-> None, log |-> ""]

\* MessageBus.send_message (one critical section under self.lock)
BackendBus_send_message(b, message) ==
  IF message.receiver \notin DOMAIN b.agent_queues
  THEN [b |-> b, ret |-> FALSE]
  ELSE [b |-> [b EXCEPT !.agent_queues[message.receiver] = Append(@, message),
                        !.message_history = Append(@, message),
                        !.total_messages = @ + 1],
        ret |-> TRUE]

\* MessageBus.receive_message: Queue.get(timeout) returns the head, or Empty
\* once the wait is over (msg = NoMsg)
BackendBus_receive_message(b, agent_name) ==
  IF agent_name \notin DOMAIN b.agent_queues THEN [b |-> b, msg |-> NoMsg]
  ELSE IF b.agent_queues[agent_name] = <<>> THEN [b |-> b, msg |-> NoMsg]
  ELSE [b |-> [b EXCEPT !.agent_queues[agent_name] = Tail(@)],
        msg |-> Head(b.agent_queues[agent_name]).id]

\* ------------------------------------------ backend/agents/base_agent.py
\* BaseAgent.__init__
BaseAgent_init == [is_running |-> FALSE, listener_thread |-> 0, threads |-> <<>>]

\* BaseAgent.start on the agent record ag
BaseAgent_start(ag) ==
  IF ~ag.is_running
  THEN [is_running |-> TRUE,
        threads |-> Append(ag.threads, [pc |-> "while", msg |-> NoMsg, failed |-> FALSE, late |-> 0]),
        listener_thread |-> Len(ag.threads) + 1]
  ELSE ag

\* BaseAgent.stop up to the join: the flag is cleared; join is entered only
\* when a listener thread exists
BaseAgent_stop(ag) ==
  [ag |-> [ag EXCEPT !.is_running = FALSE], joins |-> ag.listener_thread # 0]

\* mutant of BaseAgent._listen_loop: after a handler the thread polls again
\* at once ("while message:" inside the loop), without a new test of
\* self.is_running
BaseAgent_listen_loop_drain(th, flag, got, raises) ==
  CASE th.pc = "while" -> IF flag THEN [th EXCEPT !.pc = "receive"]
                          ELSE [th EXCEPT !.pc = "done"]
    [] th.pc = "receive" -> IF got # NoMsg THEN [th EXCEPT !.pc = "handle", !.msg = got]
                            ELSE [th EXCEPT !.pc = "sleep"]
    [] th.pc = "handle" -> [th EXCEPT !.pc = "receive", !.msg = NoMsg,
                                      !.failed = @ \/ raises]
    [] th.pc = "sleep" -> [th EXCEPT !.pc = "while"]
    [] OTHER -> th

\* mutant of BaseAgent._listen_loop: the try/except around handle_message is
\* missing, so an exception raised by the handler ends the thread
BaseAgent_listen_loop_nocatch(th, flag, got, raises) ==
  CASE th.pc = "while" -> IF flag THEN [th EXCEPT !.pc = "receive"]
                          ELSE [th EXCEPT !.pc = "done"]
    [] th.pc = "receive" -> IF got # NoMsg THEN [th EXCEPT !.pc = "handle", !.msg = got]
                            ELSE [th EXCEPT !.pc = "sleep"]
    [] th.pc = "handle" -> IF raises
                           THEN [th EXCEPT !.pc = "done", !.msg = NoMsg, !.failed = TRUE]
                           ELSE [th EXCEPT !.pc = "sleep", !.msg = NoMsg]
    [] th.pc = "sleep" -> [th EXCEPT !.pc = "while"]
    [] OTHER -> th

\* one step of BaseAgent._listen_loop for a thread th; flag is self.is_running,
\* got the value receive_message returned, raises whether handle_message
\* raised an Exception (caught at line 47; failed records that it happened)
BaseAgent_listen_loop(th, flag, got, raises) ==
  CASE th.pc = "while" -> IF flag THEN [th EXCEPT !.pc = "receive"]
                          ELSE [th EXCEPT !.pc = "done"]
    [] th.pc = "receive" -> IF got # NoMsg THEN [th EXCEPT !.pc = "handle", !.msg = got]
                            ELSE [th EXCEPT !.pc = "sleep"]
    [] th.pc = "handle" -> [th EXCEPT !.pc = "sleep", !.msg = NoMsg,
                                      !.failed = @ \/ raises]
    [] th.pc = "sleep" -> [th EXCEPT !.pc = "while"]
    [] OTHER -> th

\* ------------------------------------------------- concurrent bus callers
MaxCallers == 2
Callers == 1..MaxCallers

\* a caller thread that is inside no bus call
IdleCall == [pc |-> "idle", op |-> "none", name |-> None, msg |-> NoMsg, n |-> 0,
             result |-> FALSE]

\* the methods of the backend MessageBus whose body is "with self.lock:"
\* (mutant: receive_message takes the lock as well)
BackendBus_lock_scope_all(op) == TRUE

BackendBus_lock_scope(op) == op \in {"send", "register"}

\* MessageBus.send_message of the backend, one statement at a time: the test
\* of line 27, the put of line 31, the append of line 32, the count of line 33
BackendBus_send_step(b, pc, message) ==
  CASE pc = "check" ->
         IF message.receiver \notin DOMAIN b.agent_queues
         THEN [b |-> b, pc |-> "exit", ret |-> FALSE]
         ELSE [b |-> b, pc |-> "put", ret |-> FALSE]
    [] pc = "put" ->
         [b |-> [b EXCEPT !.agent_queues[message.receiver] = Append(@, message)],
          pc |-> "append", ret |-> FALSE]
    [] pc = "append" ->
         [b |-> [b EXCEPT !.message_history = Append(@, message)],
          pc |-> "count", ret |-> FALSE]
    [] OTHER ->
         [b |-> [b EXCEPT !.total_messages = @ + 1], pc |-> "exit", ret |-> TRUE]

\* MessageBus.send_message of communication/message_bus.py, one statement at
\* a time (no lock is taken): the test of line 69, the stamp and put of
\* lines 74-77 (the dict becomes shared: heap cell r), the history.append of
\* line 80
MessageBus_send_step(w, pc, message, r, t) ==
  CASE pc = "check" ->
         IF message.to \notin DOMAIN w.queues
         THEN [w |-> w, pc |-> "exit", ret |-> FALSE]
         ELSE [w |-> w, pc |-> "put", ret |-> FALSE]
    [] pc = "put" ->
         [w |-> [w EXCEPT !.heap = Append(@, [message EXCEPT !.bus_timestamp = t]),
                          !.queues[message.to] = Append(@, Len(w.heap) + 1)],
          pc |-> "append", ret |-> FALSE]
    [] OTHER ->
         [w |-> [w EXCEPT !.history = Append(@, DictCopy(w.heap, r))],
          pc |-> "exit", ret |-> TRUE]

\* ------------------------------------------- backend/agents/*_agent.py
\* the content dict of a Message, reduced to what the handlers test: the
\* command or task text, whether a dataset / a target column / file data is
\* in it, and the 'valid' flag
Content(text, dataset, target, valid) ==
  [text |-> text, dataset |-> dataset, target |-> target, valid |-> valid]

NoContent == Content("", FALSE, FALSE, FALSE)

\* Message(sender, receiver, message_type, content); req is the request of
\* Frontend the message descends from
FlowMessage(sender, receiver, message_type, content, req) ==
  [id |-> NoMsg, sender |-> sender, receiver |-> receiver,
   message_type |-> message_type, content |-> content, req |-> req]

\* what a handler call did: the messages it handed to the bus, and whether
\* an exception left handle_message
Handled(sends) == [sends |-> sends, raised |-> FALSE]

\* what may happen inside a handler that loads, analyses or trains: it
\* succeeds, it finds an error in the data, or a statement raises
FlowOutcomes == {"ok", "error", "raise"}

\* ChefProjetAgent.handle_message
ChefProjetAgent_handle_message(m) ==
  LET self == "ChefProjet"
      c == m.content
      toFrontend(t, content) == Handled(<<FlowMessage(self, "Frontend", t, content, m.req)>>)
  IN CASE m.message_type = "DATA_UPLOAD" ->
            Handled(<<FlowMessage(self, "DataEngineer", "DATA_UPLOAD", c, m.req)>>)
       [] m.message_type = "DATA_VALIDATION" ->
            IF c.valid THEN toFrontend("DATA_VALIDATION", c) ELSE Handled(<<>>)
       [] m.message_type = "USER_MESSAGE" ->
            IF c.text \in {"analyser", "statistiques", "resume"}
            THEN IF ~c.dataset THEN toFrontend("ERROR", NoContent)
                 ELSE Handled(<<FlowMessage(self, "Analyste", "TASK_REQUEST",
                                            Content(c.text, TRUE, FALSE, FALSE), m.req)>>)
            ELSE IF c.text = "entrainer"
            THEN IF ~c.dataset \/ ~c.target THEN toFrontend("ERROR", NoContent)
                 ELSE Handled(<<FlowMessage(self, "ModelisateurML", "TASK_REQUEST",
                                            Content("entrainer", TRUE, TRUE, FALSE), m.req)>>)
            ELSE toFrontend("AGENT_RESPONSE", NoContent)
       [] m.message_type = "TASK_RESPONSE" -> toFrontend("AGENT_RESPONSE", c)
       [] m.message_type = "ERROR" -> toFrontend("ERROR", c)
       [] OTHER -> Handled(<<>>)

\* DataEngineerAgent.handle_message: _handle_data_upload answers the sender
\* on every path, its except clause included
DataEngineerAgent_handle_message(m, outcome) ==
  LET self == "DataEngineer"
  IN IF m.message_type = "DATA_UPLOAD"
     THEN IF ~m.content.dataset \/ outcome # "ok"
          THEN Handled(<<FlowMessage(self, m.sender, "ERROR", NoContent, m.req)>>)
          ELSE Handled(<<FlowMessage(self, m.sender, "DATA_VALIDATION",
                                     Content("", TRUE, FALSE, TRUE), m.req)>>)
     ELSE Handled(<<>>)

\* AnalysteAgent.handle_message: no try around the analysis, so an exception
\* raised in it leaves handle_message before send_message is reached
AnalysteAgent_handle_message(m, outcome) ==
  LET self == "Analyste"
  IN IF m.message_type = "TASK_REQUEST"
          /\ m.content.text \in {"analyser", "statistiques", "resume"}
     THEN IF outcome = "raise" THEN [sends |-> <<>>, raised |-> TRUE]
          ELSE Handled(<<FlowMessage(self, m.sender, "TASK_RESPONSE", m.content, m.req)>>)
     ELSE Handled(<<>>)

\* ModelisateurMLAgent.handle_message: _train_models answers the sender on
\* every path, its except clause included
ModelisateurMLAgent_handle_message(m, outcome) ==
  LET self == "ModelisateurML"
  IN IF m.message_type = "TASK_REQUEST" /\ m.content.text = "entrainer"
     THEN IF ~m.content.dataset \/ ~m.content.target \/ outcome # "ok"
          THEN Handled(<<FlowMessage(self, m.sender, "ERROR", NoContent, m.req)>>)
          ELSE Handled(<<FlowMessage(self, m.sender, "TASK_RESPONSE", m.content, m.req)>>)
     ELSE Handled(<<>>)

\* handle_message of the agent named a
HandleMessage(a, m, outcome) ==
  CASE a = "ChefProjet" -> ChefProjetAgent_handle_message(m)
    [] a = "DataEngineer" -> DataEngineerAgent_handle_message(m, outcome)
    [] a = "Analyste" -> AnalysteAgent_handle_message(m, outcome)
    [] OTHER -> ModelisateurMLAgent_handle_message(m, outcome)

\* ------------------------------------------------------------ the system
Priorities == {"normal"}
Timeouts == {0, 1}       \* 0 stands for timeout=None (non-blocking), 1 for a positive wait
ExtSender == "ext"       \* a caller that uses the bus directly

Init ==
  /\ impl \in {"socle", "backend"}
  /\ queues = MessageBus_init.queues
  /\ registered_agents = MessageBus_init.registered_agents
  /\ history = MessageBus_init.history
  /\ heap = MessageBus_init.heap
  /\ payloads = [p \in PayRefs |-> 1]
  /\ now = 0
  /\ agents = <<>>
  /\ astate = [a \in AgentObjs |-> "idle"]
  /\ abus = [a \in AgentObjs |-> FALSE]
  /\ ret = [op |-> "init"]
  /\ sentLog = <<>>
  /\ recvLog = [n \in BusNames |-> <<>>]
  /\ everStarted = {}
  /\ agent_queues = BackendBus_init.agent_queues
  /\ message_history = BackendBus_init.message_history
  /\ total_messages = BackendBus_init.total_messages
  /\ is_running = [a \in BackendAgents |-> BaseAgent_init.is_running]
  /\ listener_thread = [a \in BackendAgents |-> BaseAgent_init.listener_thread]
  /\ threads = [a \in BackendAgents |-> BaseAgent_init.threads]
  /\ joining = None
  /\ routedLog = <<>>
  /\ gotLog = [n \in BackendNames |-> <<>>]
  /\ lock = 0
  /\ bus_calls = [c \in Callers |-> IdleCall]

\* the messages routed by a call that took the bus from w0 to w1
NewRouted(w0, w1, sender, task, p) ==
  [k \in 1..(Len(w1.heap) - Len(w0.heap)) |->
     LET r == Len(w0.heap) + k
     IN [ref |-> r, from |-> sender, to |-> w1.heap[r].to, task |-> task,
         pay |-> p, payval |-> payloads[p]]]

\* recvLog after a receive call for name returned r (NoMsg: nothing to log)
Received(name, r) ==
  IF r = NoMsg THEN recvLog ELSE [recvLog EXCEPT ![name] = Append(@, r)]

\* a caller changes the payload dict it passed to an earlier, routed send
MutatePayload(p) ==
  /\ \E i \in 1..Len(sentLog) : sentLog[i].pay = p
  /\ payloads' = [payloads EXCEPT ![p] = 1 - @]
  /\ ret' = [op |-> "mutate_payload", pay |-> p]
  /\ UNCHANGED <<queues, registered_agents, history, heap, now, agents,
                 astate, abus, sentLog, recvLog, everStarted, tvars, impl>>

\* the direct caller changes a key of the message dict it passed to a routed send
MutateMessage(r) ==
  /\ \E i \in 1..Len(sentLog) : sentLog[i].ref = r /\ sentLog[i].from = ExtSender
  /\ heap' = [heap EXCEPT ![r].task = CHOOSE t \in Tasks : t # @]
  /\ ret' = [op |-> "mutate_message", ref |-> r]
  /\ UNCHANGED <<queues, registered_agents, history, payloads, now, agents,
                 astate, abus, sentLog, recvLog, everStarted, tvars, impl>>

BusRegister(n) ==
  LET o == MessageBus_register_agent(World, n)
  IN /\ SetWorld(o.w)
     /\ ret' = [op |-> "bus.register_agent", name |-> n, result |-> o.ret, log |-> o.log]
     /\ UNCHANGED <<payloads, now, agents, astate, abus, sentLog, recvLog, everStarted, tvars, impl>>

BusUnregister(n) ==
  LET o == MessageBus_unregister_agent(World, n)
  IN /\ SetWorld(o.w)
     /\ ret' = [op |-> "bus.unregister_agent", name |-> n, result |-> o.ret, log |-> o.log]
     /\ UNCHANGED <<payloads, now, agents, astate, abus, sentLog, recvLog, everStarted, tvars, impl>>

\* a direct caller builds a message dict and hands it to MessageBus.send_message
BusSend(to, task, p) ==
  /\ Len(heap) < MaxMsgs
  /\ LET r == Len(heap) + 1
         m == [message_id |-> <<"ext", now>>, timestamp |-> now, from |-> ExtSender,
               to |-> to, task |-> task, payload |-> p, priority |-> None,
               bus_timestamp |-> NoTs]
         w1 == [World EXCEPT !.heap = Append(@, m)]
         o == MessageBus_send_message(w1, to, r, now)
         w2 == Collect(o.w, r)
     IN /\ SetWorld(w2)
        /\ ret' = [op |-> "bus.send_message", to |-> to, result |-> o.ret]
        /\ sentLog' = sentLog \o NewRouted(World, w2, ExtSender, task, p)
  /\ UNCHANGED <<payloads, now, agents, astate, abus, recvLog, everStarted, tvars, impl>>

BusGet(n, timeout) ==
  LET o == MessageBus_get_message(World, n, timeout)
  IN /\ SetWorld(o.w)
     /\ ret' = [op |-> "bus.get_message", name |-> n, result |-> o.ret]
     /\ recvLog' = Received(n, o.ret)
     /\ UNCHANGED <<payloads, now, agents, astate, abus, sentLog, everStarted, tvars, impl>>

\* a caller reads the history; only ret changes
BusGetHistory(limit, from_agent, to_agent) ==
  /\ ret' = [op |-> "bus.get_history", limit |-> limit, from |-> from_agent,
             to |-> to_agent,
             result |-> MessageBus_get_history(World, limit, from_agent, to_agent)]
  /\ UNCHANGED <<queues, registered_agents, history, heap, payloads, now, agents, astate,
                 abus, sentLog, recvLog, everStarted, tvars, impl>>

BusClearHistory ==
  /\ SetWorld(MessageBus_clear_history(World))
  /\ ret' = [op |-> "bus.clear_history"]
  /\ UNCHANGED <<payloads, now, agents, astate, abus, sentLog, recvLog, everStarted, tvars, impl>>

BusReset ==
  /\ SetWorld(MessageBus_reset(World))
  /\ ret' = [op |-> "bus.reset"]
  /\ UNCHANGED <<payloads, now, agents, astate, abus, sentLog, recvLog, everStarted, tvars, impl>>

AgentSend(a, to, task, p, priority) ==
  /\ Len(heap) < MaxMsgs
  /\ LET o == Agent_send_message(World, a, abus[a], to, task, p, priority, now)
     IN /\ SetWorld(o.w)
        /\ ret' = [op |-> "agent.send_message", agent |-> a, to |-> to, task |-> task,
                   pay |-> p, result |-> o.ret]
        /\ sentLog' = sentLog \o NewRouted(World, o.w, NameOf(a), task, p)
  /\ UNCHANGED <<payloads, now, agents, astate, abus, recvLog, everStarted, tvars, impl>>

AgentReceive(a, timeout) ==
  LET o == Agent_receive_message(World, a, abus[a], timeout)
  IN /\ SetWorld(o.w)
     /\ ret' = [op |-> "agent.receive_message", agent |-> a, result |-> o.ret]
     /\ recvLog' = Received(NameOf(a), o.ret)
     /\ UNCHANGED <<payloads, now, agents, astate, abus, sentLog, everStarted, tvars, impl>>

\* handle_message called with a message dict
AgentHandle(a, outcome) ==
  /\ LET o == Agent_handle_message(outcome)
     IN /\ astate' = [astate EXCEPT ![a] = o.state]
        /\ ret' = [op |-> "agent.handle_message", agent |-> a, raises |-> outcome.raises,
                   escaped |-> o.raised, result |-> o.ret, trace |-> o.trace]
  /\ UNCHANGED <<queues, registered_agents, history, heap, payloads, now, agents,
                 abus, sentLog, recvLog, everStarted, tvars, impl>>

\* a caller runs msg = agent.receive_message(timeout) and then
\* agent.handle_message(msg), as tests/test_setup.py:276-277 does
AgentReceiveHandle(a, timeout, outcome) ==
  /\ LET o == Agent_receive_message(World, a, abus[a], timeout)
         h == Agent_handle_message_of(astate[a], o.ret, outcome)
     IN /\ SetWorld(o.w)
        /\ recvLog' = Received(NameOf(a), o.ret)
        /\ astate' = [astate EXCEPT ![a] = h.state]
        /\ ret' = [op |-> "agent.receive_then_handle", agent |-> a, msg |-> o.ret,
                   raises |-> outcome.raises, escaped |-> h.raised, result |-> h.ret]
  /\ UNCHANGED <<payloads, now, agents, abus, sentLog, everStarted, tvars, impl>>

AgentStart(a) ==
  /\ astate' = [astate EXCEPT ![a] = Agent_start(@)]
  /\ everStarted' = everStarted \cup {a}
  /\ ret' = [op |-> "agent.start", agent |-> a]
  /\ UNCHANGED <<queues, registered_agents, history, heap, payloads, now, agents,
                 abus, sentLog, recvLog, tvars, impl>>

AgentStop(a) ==
  /\ astate' = [astate EXCEPT ![a] = Agent_stop(@)]
  /\ ret' = [op |-> "agent.stop", agent |-> a, raised |-> FALSE]
  /\ UNCHANGED <<queues, registered_agents, history, heap, payloads, now, agents,
                 abus, sentLog, recvLog, everStarted, tvars, impl>>

MgrRegister(agent) ==
  LET o == AgentManager_register_agent(Mgr, agent)
  IN /\ SetMgr(o.m)
     /\ ret' = [op |-> "manager.register_agent", agent |-> agent, result |-> o.ret]
     /\ UNCHANGED <<payloads, now, sentLog, recvLog, everStarted, tvars, impl>>

MgrUnregister(n) ==
  LET o == AgentManager_unregister_agent(Mgr, n)
  IN /\ SetMgr(o.m)
     /\ ret' = [op |-> "manager.unregister_agent", name |-> n, result |-> o.ret]
     /\ UNCHANGED <<payloads, now, sentLog, recvLog, everStarted, tvars, impl>>

MgrStartAll ==
  /\ SetMgr(AgentManager_start_all(Mgr))
  /\ everStarted' = everStarted \cup Range(agents)
  /\ ret' = [op |-> "manager.start_all"]
  /\ UNCHANGED <<payloads, now, sentLog, recvLog, tvars, impl>>

MgrStopAll ==
  /\ SetMgr(AgentManager_stop_all(Mgr))
  /\ ret' = [op |-> "manager.stop_all"]
  /\ UNCHANGED <<payloads, now, sentLog, recvLog, everStarted, tvars, impl>>

\* start_all() while the agents of failing raise in start()
MgrStartAllFailing(failing) ==
  /\ failing # {}
  /\ LET o == BulkLoop(astate, agents, failing, "start", <<>>)
     IN /\ astate' = o.astate
        /\ everStarted' = everStarted \cup (Range(o.calls) \ failing)
        /\ ret' = [op |-> "manager.start_all", failing |-> failing, calls |-> o.calls,
                   escaped |-> o.escaped]
  /\ UNCHANGED <<queues, registered_agents, history, heap, payloads, now, agents,
                 abus, sentLog, recvLog, tvars, impl>>

\* stop_all() while the agents of failing raise in stop()
MgrStopAllFailing(failing) ==
  /\ failing # {}
  /\ LET o == BulkLoop(astate, agents, failing, "stop", <<>>)
     IN /\ astate' = o.astate
        /\ ret' = [op |-> "manager.stop_all", failing |-> failing, calls |-> o.calls,
                   escaped |-> o.escaped]
  /\ UNCHANGED <<queues, registered_agents, history, heap, payloads, now, agents,
                 abus, sentLog, recvLog, everStarted, tvars, impl>>

MgrGetAllStatus ==
  /\ ret' = [op |-> "manager.get_all_status",
             result |-> AgentManager_get_all_status(Mgr, now)]
  /\ UNCHANGED <<queues, registered_agents, history, heap, payloads, now, agents,
                 astate, abus, sentLog, recvLog, everStarted, tvars, impl>>

MgrBroadcast(task, p, exclude) ==
  /\ Len(heap) + Len(agents) <= MaxMsgs
  /\ LET m == AgentManager_send_broadcast(Mgr, task, p, exclude, now)
     IN /\ SetMgr(m)
        /\ ret' = [op |-> "manager.send_broadcast", exclude |-> exclude]
        /\ sentLog' = sentLog \o NewRouted(World, m.w, "AgentManager", task, p)
  /\ UNCHANGED <<payloads, now, recvLog, everStarted, tvars, impl>>

MgrShutdown ==
  /\ SetMgr(AgentManager_shutdown(Mgr))
  /\ LET mid == AgentManager_shutdown_steps(Mgr)[1]
     IN ret' = [op |-> "manager.shutdown",
                stopped_at_reset |-> \A a \in Range(agents) : mid.astate[a] = "stopped",
                bus_at_stop |-> IF mid.w = World THEN "untouched" ELSE "changed"]
  /\ UNCHANGED <<payloads, now, sentLog, recvLog, everStarted, tvars, impl>>

\* ------------------------------------------------ the threaded system
TAgentRec(a) == [is_running |-> is_running[a], listener_thread |-> listener_thread[a],
                 threads |-> threads[a]]

BackendBus == [agent_queues |-> agent_queues, message_history |-> message_history,
               total_messages |-> total_messages]

SetBackendBus(b) ==
  /\ agent_queues' = b.agent_queues
  /\ message_history' = b.message_history
  /\ total_messages' = b.total_messages

\* gotLog after receive_message for name returned id (NoMsg: nothing to log)
Got(name, id) == IF id = NoMsg THEN gotLog ELSE [gotLog EXCEPT ![name] = Append(@, id)]

\* late counts, per listener thread, the handler calls it began while
\* is_running was False, since the last start() that set the flag
MarkLate(th0, th1, flag) ==
  IF th0.pc = "receive" /\ th1.pc = "handle" /\ ~flag
  THEN [th1 EXCEPT !.late = @ + 1] ELSE th1

SinceStop(ths) == [i \in 1..Len(ths) |-> [ths[i] EXCEPT !.late = 0]]

\* the main thread calls start() on a threaded agent
TStart(a) ==
  /\ joining = None
  /\ Len(threads[a]) < MaxThreads
  /\ LET ag == BaseAgent_start(TAgentRec(a))
     IN /\ is_running' = [is_running EXCEPT ![a] = ag.is_running]
        /\ listener_thread' = [listener_thread EXCEPT ![a] = ag.listener_thread]
        /\ threads' = [threads EXCEPT ![a] =
                          IF is_running[a] THEN ag.threads ELSE SinceStop(ag.threads)]
  /\ everStarted' = everStarted \cup {a}
  /\ ret' = [op |-> "base_agent.start", agent |-> a]
  /\ UNCHANGED <<impl, mvars, lock, bus_calls, agent_queues, message_history, total_messages, joining,
                 routedLog, gotLog>>

\* the main thread calls stop(): it clears the flag and, with a listener
\* thread, enters join(timeout=2); without one, stop() returns at once
TStop(a) ==
  /\ joining = None
  /\ LET o == BaseAgent_stop(TAgentRec(a))
     IN /\ is_running' = [is_running EXCEPT ![a] = o.ag.is_running]
        /\ joining' = IF o.joins THEN a ELSE None
        /\ ret' = [op |-> "base_agent.stop", agent |-> a, raised |-> FALSE,
                   returned |-> ~o.joins]
  /\ UNCHANGED <<impl, mvars, lock, bus_calls, agent_queues, message_history, total_messages,
                 listener_thread, threads, everStarted, routedLog, gotLog>>

\* join returns: the listener thread has ended, or the 2 s ran out, which
\* takes a handler that is still running (every other step of the loop
\* lasts 0.1 s at most)
TStopReturn(a) ==
  /\ joining = a
  /\ LET th == threads[a][listener_thread[a]]
     IN th.pc = "done" \/ th.pc = "handle"
  /\ joining' = None
  /\ ret' = [op |-> "base_agent.stop", agent |-> a, raised |-> FALSE, returned |-> TRUE]
  /\ UNCHANGED <<impl, mvars, lock, bus_calls, agent_queues, message_history, total_messages, is_running,
                 listener_thread, threads, everStarted, routedLog, gotLog>>

\* listener thread i of agent a takes one step of _listen_loop; at the
\* handler step, raises tells whether handle_message raises
TLoop(a, i, raises) ==
  /\ threads[a][i].pc # "done"
  /\ LET th == threads[a][i]
         o == IF th.pc = "receive" THEN BackendBus_receive_message(BackendBus, a)
              ELSE [b |-> BackendBus, msg |-> NoMsg]
     IN /\ threads' = [threads EXCEPT ![a][i] =
                          MarkLate(th, BaseAgent_listen_loop(th, is_running[a], o.msg, raises),
                                   is_running[a])]
        /\ SetBackendBus(o.b)
        /\ gotLog' = Got(a, o.msg)
  /\ UNCHANGED <<impl, mvars, lock, bus_calls, is_running, listener_thread, joining, ret, everStarted,
                 routedLog>>

\* any thread builds a Message and hands it to the bus
TSend(sender, receiver) ==
  /\ Len(routedLog) < MaxMsgs
  /\ LET m == [id |-> Len(routedLog) + 1, sender |-> sender, receiver |-> receiver]
         o == BackendBus_send_message(BackendBus, m)
     IN /\ SetBackendBus(o.b)
        /\ ret' = [op |-> "backend_bus.send_message", to |-> receiver, result |-> o.ret]
        /\ routedLog' = IF o.ret THEN Append(routedLog, m) ELSE routedLog
  /\ UNCHANGED <<impl, mvars, lock, bus_calls, is_running, listener_thread, threads, joining, everStarted,
                 gotLog>>

\* a caller registers a name on the backend bus
TRegister(n) ==
  /\ LET o == BackendBus_register_agent(BackendBus, n)
     IN /\ SetBackendBus(o.b)
        /\ ret' = [op |-> "backend_bus.register_agent", name |-> n, result |-> o.ret,
                   log |-> o.log]
  /\ UNCHANGED <<impl, mvars, lock, bus_calls, is_running, listener_thread, threads, joining, everStarted,
                 routedLog, gotLog>>

\* a caller polls the backend bus for name n
TReceive(n) ==
  /\ LET o == BackendBus_receive_message(BackendBus, n)
     IN /\ SetBackendBus(o.b)
        /\ ret' = [op |-> "backend_bus.receive_message", name |-> n, result |-> o.msg]
        /\ gotLog' = Got(n, o.msg)
  /\ UNCHANGED <<impl, mvars, lock, bus_calls, is_running, listener_thread, threads, joining, everStarted,
                 routedLog>>

\* ---------------------------------------- caller threads inside bus calls
bvars == <<agent_queues, message_history, total_messages>>

avars == <<is_running, listener_thread, threads, joining>>

\* the number of send calls the caller threads have begun
SendsBegun ==
  LET S[k \in 0..MaxCallers] == IF k = 0 THEN 0 ELSE S[k - 1] + bus_calls[k].n
  IN S[MaxCallers]

\* the first statement of a backend bus method once the lock, if any, is held
FirstPc(op) == IF op = "receive" THEN "get" ELSE "check"

\* the Message a caller thread is sending on the backend bus
CallMessage(c) == [id |-> bus_calls[c].msg, sender |-> "Frontend", receiver |-> bus_calls[c].name]

\* thread c calls send_message / register_agent / receive_message of the
\* backend bus: it arrives at "with self.lock:" or, for a method without the
\* lock, at its first statement
CallBegin(c, op, name) ==
  /\ bus_calls[c].pc = "idle"
  /\ op = "send" => SendsBegun < MaxMsgs
  /\ bus_calls' = [bus_calls EXCEPT ![c] =
       [pc |-> IF BackendBus_lock_scope(op) THEN "lock" ELSE FirstPc(op),
        op |-> op, name |-> name,
        msg |-> IF op = "send" THEN c + MaxCallers * bus_calls[c].n ELSE NoMsg,
        n |-> bus_calls[c].n + (IF op = "send" THEN 1 ELSE 0),
        result |-> FALSE]]
  /\ UNCHANGED <<impl, mvars, bvars, avars, routedLog, gotLog, lock, ret, everStarted>>

\* thread c acquires self.lock, which is free
CallAcquire(c) ==
  /\ bus_calls[c].pc = "lock"
  /\ lock = 0
  /\ lock' = c
  /\ bus_calls' = [bus_calls EXCEPT ![c].pc = FirstPc(bus_calls[c].op)]
  /\ UNCHANGED <<impl, mvars, bvars, avars, routedLog, gotLog, ret, everStarted>>

\* thread c executes one statement of the body of send_message or the body
\* of register_agent
CallStep(c) ==
  /\ bus_calls[c].pc \in {"check", "put", "append", "count"}
  /\ LET k == bus_calls[c]
         reg == BackendBus_register_agent(BackendBus, k.name)
         o == IF k.op = "send" THEN BackendBus_send_step(BackendBus, k.pc, CallMessage(c))
              ELSE [b |-> reg.b, pc |-> "exit", ret |-> reg.log # ""]
     IN /\ SetBackendBus(o.b)
        /\ bus_calls' = [bus_calls EXCEPT ![c].pc = o.pc, ![c].result = o.ret]
        /\ routedLog' = IF k.op = "send" /\ k.pc = "put"
                        THEN Append(routedLog, CallMessage(c)) ELSE routedLog
  /\ UNCHANGED <<impl, mvars, avars, gotLog, lock, ret, everStarted>>

\* thread c is inside Queue.get(timeout=0.1) of receive_message, or found the
\* name unknown: the call returns the head of the mailbox, or None
CallReceive(c) ==
  /\ bus_calls[c].pc = "get"
  /\ LET o == BackendBus_receive_message(BackendBus, bus_calls[c].name)
     IN /\ SetBackendBus(o.b)
        /\ gotLog' = Got(bus_calls[c].name, o.msg)
        /\ ret' = [op |-> "backend_bus.receive_message", name |-> bus_calls[c].name,
                   result |-> o.msg]
  /\ bus_calls' = [bus_calls EXCEPT ![c] = [IdleCall EXCEPT !.n = bus_calls[c].n]]
  /\ lock' = IF lock = c THEN 0 ELSE lock
  /\ UNCHANGED <<impl, mvars, avars, routedLog, everStarted>>

\* thread c leaves the "with self.lock:" block of send_message or
\* register_agent and returns
CallReturn(c) ==
  /\ bus_calls[c].pc = "exit"
  /\ lock' = IF lock = c THEN 0 ELSE lock
  /\ ret' = IF bus_calls[c].op = "send"
            THEN [op |-> "backend_bus.send_message", to |-> bus_calls[c].name,
                  result |-> bus_calls[c].result]
            ELSE [op |-> "backend_bus.register_agent", name |-> bus_calls[c].name,
                  result |-> None,
                  log |-> IF bus_calls[c].result THEN "Agent enregistre" ELSE ""]
  /\ bus_calls' = [bus_calls EXCEPT ![c] = [IdleCall EXCEPT !.n = bus_calls[c].n]]
  /\ UNCHANGED <<impl, mvars, bvars, avars, routedLog, gotLog, everStarted>>

\* the dict a direct caller thread hands to send_message of
\* communication/message_bus.py
BusSendMessage(c) ==
  [message_id |-> <<"ext", c, bus_calls[c].n>>, timestamp |-> now, from |-> ExtSender,
   to |-> bus_calls[c].name, task |-> "echo", payload |-> 1, priority |-> None,
   bus_timestamp |-> NoTs]

\* thread c calls send_message of communication/message_bus.py
BusSendBegin(c, to) ==
  /\ bus_calls[c].pc = "idle"
  /\ SendsBegun < MaxMsgs
  /\ bus_calls' = [bus_calls EXCEPT ![c] = [pc |-> "check", op |-> "send", name |-> to,
                                    msg |-> NoMsg, n |-> bus_calls[c].n + 1,
                                    result |-> FALSE]]
  /\ UNCHANGED <<impl, mvars, bvars, avars, routedLog, gotLog, lock, ret, everStarted>>

\* thread c executes one statement of that send_message
BusSendStep(c) ==
  /\ bus_calls[c].pc \in {"check", "put", "append"}
  /\ LET k == bus_calls[c]
         o == MessageBus_send_step(World, k.pc, BusSendMessage(c), k.msg, now)
     IN /\ SetWorld(o.w)
        /\ bus_calls' = [bus_calls EXCEPT ![c].pc = o.pc, ![c].result = o.ret,
                                  ![c].msg = IF k.pc = "put" THEN Len(heap) + 1 ELSE @]
        /\ sentLog' = IF k.pc = "put"
                      THEN Append(sentLog, [ref |-> Len(heap) + 1, from |-> ExtSender,
                                            to |-> k.name, task |-> "echo", pay |-> 1,
                                            payval |-> payloads[1]])
                      ELSE sentLog
  /\ UNCHANGED <<impl, payloads, now, agents, astate, abus, recvLog, bvars, avars,
                 routedLog, gotLog, lock, ret, everStarted>>

\* that send_message returns to thread c
BusSendReturn(c) ==
  /\ bus_calls[c].pc = "exit"
  /\ ret' = [op |-> "bus.send_message", to |-> bus_calls[c].name, result |-> bus_calls[c].result]
  /\ bus_calls' = [bus_calls EXCEPT ![c] = [IdleCall EXCEPT !.n = bus_calls[c].n]]
  /\ UNCHANGED <<impl, mvars, bvars, avars, routedLog, gotLog, lock, everStarted>>

\* ------------------------------------------------- the request workflow
MaxRequests == 1

\* the requests the pages of frontend/ send to ChefProjet
FrontendRequests ==
  {[message_type |-> "DATA_UPLOAD", content |-> Content("", d, FALSE, FALSE)] :
     d \in BOOLEAN}
  \cup {[message_type |-> "USER_MESSAGE", content |-> Content(t, d, d, FALSE)] :
          t \in {"analyser", "entrainer", "autre"}, d \in BOOLEAN}

\* the routed message with the given id
MessageById(id) == CHOOSE m \in Range(message_history) : m.id = id

\* the requests Frontend has sent so far
Requests == {m \in Range(message_history) : m.sender = "Frontend"}

\* a page sends a request to ChefProjet; app.py has registered Frontend and
\* started the four agents before any page runs
FrontendSend(request) ==
  /\ "Frontend" \in DOMAIN agent_queues
  /\ \A a \in BackendAgents : is_running[a]
  /\ Cardinality(Requests) < MaxRequests
  /\ LET id == Len(routedLog) + 1
         m == [FlowMessage("Frontend", "ChefProjet", request.message_type,
                           request.content, id) EXCEPT !.id = id]
         o == BackendBus_send_message(BackendBus, m)
     IN /\ SetBackendBus(o.b)
        /\ routedLog' = IF o.ret THEN Append(routedLog, m) ELSE routedLog
        /\ ret' = [op |-> "backend_bus.send_message", to |-> "ChefProjet", result |-> o.ret]
  /\ UNCHANGED <<impl, mvars, lock, bus_calls, avars, everStarted, gotLog>>

\* listener thread i of agent a takes one step of _listen_loop, its handler
\* step being the handle_message of the agent's class
FlowLoop(a, i, outcome) ==
  /\ threads[a][i].pc # "done"
  /\ LET th == threads[a][i]
         got == IF th.pc = "receive" THEN BackendBus_receive_message(BackendBus, a)
                ELSE [b |-> BackendBus, msg |-> NoMsg]
         h == IF th.pc = "handle" THEN HandleMessage(a, MessageById(th.msg), outcome)
              ELSE Handled(<<>>)
         m == IF h.sends = <<>> THEN NoContent
              ELSE [h.sends[1] EXCEPT !.id = Len(routedLog) + 1]
         sent == IF h.sends = <<>> THEN [b |-> got.b, ret |-> FALSE]
                 ELSE BackendBus_send_message(got.b, m)
     IN /\ threads' = [threads EXCEPT ![a][i] =
                          MarkLate(th, BaseAgent_listen_loop(th, is_running[a], got.msg,
                                                             h.raised),
                                   is_running[a])]
        /\ SetBackendBus(sent.b)
        /\ gotLog' = Got(a, got.msg)
        /\ routedLog' = IF sent.ret THEN Append(routedLog, m) ELSE routedLog
  /\ UNCHANGED <<impl, mvars, lock, bus_calls, is_running, listener_thread, joining, ret,
                 everStarted>>

\* the manager: registry, bulk lifecycle, broadcast; the agents receive
Next ==
  /\ impl = "socle"
  /\ \/ \E agent \in {"a1", "a2", None} : MgrRegister(agent)
     \/ \E n \in BusNames : MgrUnregister(n)
     \/ MgrStartAll
     \/ MgrStopAll
     \/ \E exclude \in SUBSET BusNames : MgrBroadcast("echo", 1, exclude)
     \/ MgrShutdown
     \/ \E a \in {"a1", "a2"}, timeout \in Timeouts : AgentReceive(a, timeout)

Spec == Init /\ [][Next]_vars

\* the manager's registry and lifecycle calls, the agents handling messages
NextStatus ==
  /\ impl = "socle"
  /\ \/ \E agent \in AgentObjs \cup {None} : MgrRegister(agent)
     \/ \E n \in BusNames : MgrUnregister(n)
     \/ MgrStartAll
     \/ MgrStopAll
     \/ MgrGetAllStatus
     \/ MgrShutdown
     \/ \E a \in AgentObjs, outcome \in Outcomes : AgentHandle(a, outcome)

SpecStatus == Init /\ [][NextStatus]_vars

\* either bus used directly by its callers
NextBus ==
  \/ /\ impl = "socle"
     /\ \/ \E n \in BusNames : BusRegister(n)
        \/ \E n \in BusNames : BusUnregister(n)
        \/ \E to \in BusNames : BusSend(to, "echo", 1)
        \/ \E n \in BusNames, timeout \in Timeouts : BusGet(n, timeout)
        \/ BusClearHistory
        \/ BusReset
  \/ /\ impl = "backend"
     /\ \/ \E n \in TNames : TRegister(n)
        \/ \E receiver \in TNames : TSend("Frontend", receiver)
        \/ \E n \in TNames : TReceive(n)

SpecBus == Init /\ [][NextBus]_vars

\* a direct caller that keeps and changes the dicts it passed to send_message
NextAlias ==
  /\ impl = "socle"
  /\ \/ BusRegister("B")
     \/ \E task \in Tasks : BusSend("B", task, 1)
     \/ \E timeout \in Timeouts : BusGet("B", timeout)
     \/ \E r \in 1..Len(heap) : MutateMessage(r)
     \/ MutatePayload(1)

SpecAlias == Init /\ [][NextAlias]_vars

\* agent a1 sends, every agent receives
NextSend ==
  /\ impl = "socle"
  /\ \/ \E agent \in {"a1", "a2"} : MgrRegister(agent)
     \/ \E to \in BusNames, task \in Tasks, pr \in Priorities :
          AgentSend("a1", to, task, 1, pr)
     \/ \E a \in {"a1", "a2"}, timeout \in Timeouts : AgentReceive(a, timeout)
     \/ MutatePayload(1)

SpecSend == Init /\ [][NextSend]_vars

\* the lifecycle calls of both kinds of agent
NextLife ==
  \/ /\ impl = "socle"
     /\ \/ \E a \in AgentObjs : AgentStart(a)
        \/ \E a \in AgentObjs : AgentStop(a)
        \/ \E a \in AgentObjs, outcome \in Outcomes : AgentHandle(a, outcome)
  \/ /\ impl = "backend"
     /\ \/ \E a \in TAgents : TStart(a)
        \/ \E a \in TAgents : TStop(a)
        \/ \E a \in TAgents : TStopReturn(a)
        \/ \E a \in TAgents, i \in 1..MaxThreads, raises \in BOOLEAN :
             i <= Len(threads[a]) /\ TLoop(a, i, raises)
        \/ TSend("Frontend", "ChefProjet")

SpecLife == Init /\ [][NextLife]_vars

\* caller threads inside the calls of either bus
NextConc ==
  \/ /\ impl = "socle"
     /\ \/ BusRegister("B")
        \/ \E c \in Callers : BusSendBegin(c, "B")
        \/ \E c \in Callers : BusSendStep(c)
        \/ \E c \in Callers : BusSendReturn(c)
        \/ \E timeout \in Timeouts : BusGet("B", timeout)
  \/ /\ impl = "backend"
     /\ \/ \E c \in Callers : CallBegin(c, "send", "Frontend")
        \/ \E c \in Callers : CallBegin(c, "register", "Frontend")
        \/ \E c \in Callers : CallBegin(c, "receive", "Frontend")
        \/ \E c \in Callers : CallAcquire(c)
        \/ \E c \in Callers : CallStep(c)
        \/ \E c \in Callers : CallReceive(c)
        \/ \E c \in Callers : CallReturn(c)

SpecConc == Init /\ [][NextConc]_vars

\* the started agents polling their mailboxes while Frontend sends to
\* ChefProjet, which is also stopped and started again; every handler call
\* returns or raises
NextLoop ==
  /\ impl = "backend"
  /\ \/ \E a \in TAgents : TStart(a)
     \/ TStop("ChefProjet")
     \/ TStopReturn("ChefProjet")
     \/ \E a \in TAgents, i \in 1..MaxThreads, raises \in BOOLEAN :
          i <= Len(threads[a]) /\ TLoop(a, i, raises)
     \/ TSend("Frontend", "ChefProjet")

\* a live listener thread is scheduled again and again (each is a thread of
\* its own, base_agent.py:29-30), and a join that can return does return
LoopFairness ==
  /\ \A a \in TAgents, i \in 1..MaxThreads :
       WF_vars(i <= Len(threads[a]) /\ \E raises \in BOOLEAN : TLoop(a, i, raises))
  /\ \A a \in TAgents : WF_vars(TStopReturn(a))

SpecLoop == Init /\ [][NextLoop]_vars

SpecLoopFair == SpecLoop /\ LoopFairness

\* callers that receive and dispatch in one go, whatever the mailbox holds
NextDispatch ==
  /\ impl = "socle"
  /\ \/ \E agent \in {"a1", "a2"} : MgrRegister(agent)
     \/ BusUnregister("B")
     \/ \E to \in BusNames, task \in Tasks : AgentSend("a1", to, task, 1, "normal")
     \/ \E a \in {"a1", "a2"}, timeout \in Timeouts, outcome \in Outcomes :
          AgentReceiveHandle(a, timeout, outcome)

SpecDispatch == Init /\ [][NextDispatch]_vars

\* app.py brings the system up, the pages send requests, the agents work
NextFlow ==
  /\ impl = "backend"
  /\ \/ TRegister("Frontend")
     \/ \E a \in BackendAgents : TStart(a)
     \/ \E request \in FrontendRequests : FrontendSend(request)
     \/ \E a \in BackendAgents, outcome \in FlowOutcomes :
          threads[a] # <<>> /\ FlowLoop(a, 1, outcome)

\* every started listener thread is scheduled again and again
FlowFairness ==
  \A a \in BackendAgents :
    WF_vars(threads[a] # <<>> /\ \E outcome \in FlowOutcomes : FlowLoop(a, 1, outcome))

SpecFlow == Init /\ [][NextFlow]_vars

SpecFlowFair == SpecFlow /\ FlowFairness

\* ------------------------------------------------------------ properties
\* the position of message reference r in the routing order
RoutePos(r) == CHOOSE i \in 1..Len(sentLog) : sentLog[i].ref = r

\* the position of backend message id in the routing order
RoutedPos(id) == CHOOSE i \in 1..Len(routedLog) : routedLog[i].id = id

\* s lists routing positions in strictly increasing order
InRoutingOrder(s) == \A i, j \in 1..Len(s) : i < j => s[i] < s[j]

Pending(n) == IF n \in DOMAIN queues THEN queues[n] ELSE <<>>

BackendPending(n) == IF n \in DOMAIN agent_queues THEN agent_queues[n] ELSE <<>>

\* C1: per-mailbox FIFO, on both buses. For every name, the messages that
\* get_message / receive_message returned for it so far, followed by the
\* messages still pending for it, are in the order in which they were routed,
\* and each of them was routed to that name.
C1_Fifo ==
  /\ \A n \in BusNames :
       LET seen == recvLog[n] \o Pending(n)
       IN /\ InRoutingOrder([i \in 1..Len(seen) |-> RoutePos(seen[i])])
          /\ \A i \in 1..Len(seen) : sentLog[RoutePos(seen[i])].to = n
  /\ \A n \in TNames :
       LET seen == gotLog[n] \o [i \in 1..Len(BackendPending(n)) |-> BackendPending(n)[i].id]
       IN /\ InRoutingOrder([i \in 1..Len(seen) |-> RoutedPos(seen[i])])
          /\ \A i \in 1..Len(seen) : routedLog[RoutedPos(seen[i])].receiver = n

\* two messages were routed to B and both were received, with a third routed
\* to B after the first receive
C1_Witness ==
  /\ ret.op = "bus.get_message"
  /\ Len(recvLog["B"]) >= 2
  /\ Len(sentLog) >= 3

\* C2: a send to a name that is not registered returns False and changes
\* nothing: history, every mailbox, the registry and the total-sent count are
\* the same after the call as before it (both buses).
C2_SendUnknownNoEffect ==
  [][ /\ (ret'.op = "bus.send_message" /\ ret'.to \notin DOMAIN queues) =>
           /\ ret'.result = FALSE
           /\ history' = history
           /\ queues' = queues
           /\ registered_agents' = registered_agents
           /\ heap' = heap
           /\ MessageBus_get_stats([queues |-> queues', registered_agents |-> registered_agents',
                                    history |-> history', heap |-> heap'])
                = MessageBus_get_stats(World)
      /\ (ret'.op = "backend_bus.send_message" /\ ret'.to \notin DOMAIN agent_queues) =>
           /\ ret'.result = FALSE
           /\ message_history' = message_history
           /\ agent_queues' = agent_queues
           /\ total_messages' = total_messages
    ]_vars

\* a send was rejected while the history and a mailbox were not empty
C2_Witness ==
  /\ ret.op = "bus.send_message"
  /\ ret.result = FALSE
  /\ history # <<>>
  /\ \E n \in DOMAIN queues : queues[n] # <<>>

\* what register_agent returns when it registers a new name
RegisterSuccessResult == MessageBus_register_agent(MessageBus_init, "A").ret

BackendRegisterSuccessResult ==
  BackendBus_register_agent([BackendBus_init EXCEPT !.agent_queues = <<>>], "A").ret

\* C3 as stated: registering a registered name changes neither the registry nor
\* the mailbox, and the call returns a result different from that of a
\* successful registration.
C3_Original ==
  [][ /\ (ret'.op = "bus.register_agent" /\ ret'.name \in DOMAIN queues) =>
           /\ registered_agents' = registered_agents
           /\ queues' = queues
           /\ ret'.result # RegisterSuccessResult
      /\ (ret'.op = "backend_bus.register_agent" /\ ret'.name \in DOMAIN agent_queues) =>
           /\ agent_queues' = agent_queues
           /\ ret'.result # BackendRegisterSuccessResult
    ]_vars

\* C3 amended: registering a registered name changes neither the registry nor
\* the mailbox (its pending messages stay), and the call returns None, the
\* very result of a successful registration; on the socle bus only the
\* printed line tells the two apart.
C3_Amended ==
  [][ /\ (ret'.op = "bus.register_agent" /\ ret'.name \in DOMAIN queues) =>
           /\ registered_agents' = registered_agents
           /\ queues' = queues
           /\ ret'.result = RegisterSuccessResult
           /\ ret'.log = "Agent deja enregistre"
      /\ (ret'.op = "bus.register_agent" /\ ret'.name \notin DOMAIN queues) =>
           /\ ret'.result = RegisterSuccessResult
           /\ ret'.log = "Agent enregistre"
      /\ (ret'.op = "backend_bus.register_agent" /\ ret'.name \in DOMAIN agent_queues) =>
           /\ agent_queues' = agent_queues
           /\ ret'.result = BackendRegisterSuccessResult
    ]_vars

\* a name was registered again while a message was pending for it
C3_Witness ==
  /\ ret.op = "bus.register_agent"
  /\ ret.log = "Agent deja enregistre"
  /\ queues[ret.name] # <<>>
  /\ Len(registered_agents) = 2

\* the names in the manager's registry (self.agents.keys())
ManagerRegistry == Range(AgentKeys(agents))

PendingIn(q, n) == IF n \in DOMAIN q THEN q[n] ELSE <<>>

\* C4: a broadcast over the manager's registry R with exclusion list E puts
\* exactly one message in the mailbox of every name in R \ E, none in any
\* other mailbox, and raises the bus's total-sent count by |R \ E|.
C4_BroadcastCoverage ==
  [][ ret'.op = "manager.send_broadcast" =>
        LET R == ManagerRegistry
            E == ret'.exclude
        IN /\ \A n \in R \ E : Len(PendingIn(queues', n)) = Len(PendingIn(queues, n)) + 1
           /\ \A n \in BusNames \ (R \ E) :
                Len(PendingIn(queues', n)) = Len(PendingIn(queues, n))
           /\ Len(history') = Len(history) + Cardinality(R \ E)
    ]_vars

\* C5: when process_task raises inside handle_message, nothing escapes to the
\* caller, the result has status "error" and a non-empty error description,
\* and the agent's state is "error".
C5_ContainedFailure ==
  (ret.op = "agent.handle_message" /\ ret.raises) =>
     /\ ~ret.escaped
     /\ ret.result.status = "error"
     /\ ret.result.error # ""
     /\ astate[ret.agent] = "error"

\* C6: stop() on an agent that was never started returns without raising and
\* without waiting, and leaves the agent stopped: state "stopped" for an
\* Agent; is_running False, no listener thread and no join for a threaded
\* BaseAgent.
C6_SafeStop ==
  /\ (ret.op = "agent.stop" /\ ret.agent \notin everStarted) =>
        /\ ~ret.raised
        /\ astate[ret.agent] = "stopped"
  /\ (ret.op = "base_agent.stop" /\ ret.agent \notin everStarted) =>
        /\ ~ret.raised
        /\ ret.returned
        /\ joining = None
        /\ ~is_running[ret.agent]
        /\ listener_thread[ret.agent] = 0
        /\ threads[ret.agent] = <<>>

\* stop() has returned on a threaded agent that was never started while the
\* other agent's listener is running
C6_Witness ==
  /\ ret.op = "base_agent.stop"
  /\ ret.agent \notin everStarted
  /\ \E b \in TAgents : b # ret.agent /\ is_running[b]

\* C7: get_all_status() returns one entry per name in the manager's registry
\* and no other entry, each giving that agent's name and current state; right
\* after start_all() every entry has state "idle".
C7_StatusReport ==
  /\ ret.op = "manager.get_all_status" =>
        /\ DOMAIN ret.result = ManagerRegistry
        /\ \A n \in ManagerRegistry :
              /\ ret.result[n].name = n
              /\ \E a \in Range(agents) : NameOf(a) = n /\ ret.result[n].state = astate[a]
  /\ ret.op = "manager.start_all" =>
        LET status == AgentManager_get_all_status(Mgr, now)
        IN /\ DOMAIN status = ManagerRegistry
           /\ \A n \in ManagerRegistry : status[n].state = "idle"

\* the report covers two agents, one in state "error" and one "stopped"
C7_Witness ==
  /\ ret.op = "manager.get_all_status"
  /\ Cardinality(DOMAIN ret.result) = 2
  /\ \E n, k \in DOMAIN ret.result :
        ret.result[n].state = "error" /\ ret.result[k].state = "stopped"

\* C8: the message that receive_message() returns to B is the one A sent with
\* send_message(B, task, payload): its sender is A, its receiver is B, and its
\* task and payload are exactly those A passed.
C8_ContentIntegrity ==
  (ret.op = "agent.receive_message" /\ ret.result # NoMsg) =>
     LET m == heap[ret.result]
         s == sentLog[RoutePos(ret.result)]
     IN /\ m.from = s.from
        /\ m.to = NameOf(ret.agent)
        /\ m.to = s.to
        /\ m.task = s.task
        /\ payloads[m.payload] = s.payval

\* the content of the messages pending in the queues q, payloads included
DeepQueues(q, h, pl) ==
  [n \in DOMAIN q |-> [i \in 1..Len(q[n]) |-> [h[q[n][i]] EXCEPT !.payload = pl[@]]]]

\* the content of the history hist, payloads included
DeepHistory(hist, pl) == [i \in 1..Len(hist) |-> [hist[i] EXCEPT !.payload = pl[@]]]

\* C9: once a message is routed, a change the sender makes to the object it
\* passed (the message dict or its payload) shows neither in the message
\* pending in the mailbox nor in the history entry.
C9_ValueSemantics ==
  [][ ret'.op \in {"mutate_message", "mutate_payload"} =>
        /\ DeepQueues(queues', heap', payloads') = DeepQueues(queues, heap, payloads)
        /\ DeepHistory(history', payloads') = DeepHistory(history, payloads)
    ]_vars

\* history lists the messages routed since it was last emptied, in routing order
HistoryIsRouted(hist, log) ==
  /\ Len(hist) <= Len(log)
  /\ \A i \in 1..Len(hist) :
        LET s == log[Len(log) - Len(hist) + i]
        IN /\ hist[i].to = s.to
           /\ hist[i].from = s.from
           /\ hist[i].task = s.task
           /\ hist[i].payload = s.pay

\* C10 as stated: across every public bus operation other than reset(), the
\* history before the operation is a prefix of the history after it.
C10_Original ==
  [][ (impl = "socle" /\ ret'.op # "bus.reset") => IsPrefix(history, history') ]_vars

\* C10 amended: across every public bus operation other than reset() and
\* clear_history(), the history before the operation is a prefix of the
\* history after it; a routed send adds one entry, a rejected send none, and
\* the history lists the messages routed since it was last emptied, in order.
C10_Amended ==
  [][ impl = "socle" =>
        /\ ret'.op \notin {"bus.reset", "bus.clear_history"} => IsPrefix(history, history')
        /\ ret'.op \in {"bus.reset", "bus.clear_history"} => history' = <<>>
        /\ ret'.op = "bus.send_message" =>
              Len(history') = Len(history) + (IF ret'.result THEN 1 ELSE 0)
        /\ ret'.op # "bus.send_message" => Len(history') <= Len(history)
        /\ HistoryIsRouted(history', sentLog')
    ]_vars

\* a message was routed after clear_history() emptied a non-empty history
C10_Witness ==
  /\ ret.op = "bus.send_message"
  /\ ret.result
  /\ Len(history) = 1
  /\ Len(sentLog) = 3

\* the state changes the agent state machine lists: <<from, to>>
ListedTransitions ==
  {<<"stopped", "idle">>, <<"idle", "processing">>, <<"processing", "idle">>,
   <<"processing", "error">>, <<"idle", "stopped">>, <<"error", "stopped">>}

\* the state changes of a call that finds the state at pre and assigns, in
\* order, the states of trace
StateChanges(pre, trace) ==
  LET s == <<pre>> \o trace
  IN {<<s[i], s[i + 1]>> : i \in {k \in 1..(Len(s) - 1) : s[k] # s[k + 1]}}

\* the states that the call recorded in ret' assigned to its agent, in order
AssignedStates ==
  IF ret'.op = "agent.handle_message" THEN ret'.trace ELSE <<astate'[ret'.agent]>>

\* C11: the state of an agent is always one of idle, processing, error,
\* stopped; every state change made by start(), stop() or handle_message() is
\* one of the listed transitions (stopped->idle on start, idle->processing,
\* processing->idle, processing->error, idle or error->stopped on stop), and
\* an agent leaves stopped only through start().
C11_StateMachine ==
  [][ ret'.op \in {"agent.start", "agent.stop", "agent.handle_message"} =>
        LET a == ret'.agent
            changes == StateChanges(astate[a], AssignedStates)
        IN /\ astate'[a] \in {"idle", "processing", "error", "stopped"}
           /\ changes \subseteq ListedTransitions
           /\ (ret'.op = "agent.start" /\ changes # {}) => changes = {<<"stopped", "idle">>}
           /\ (ret'.op = "agent.stop" /\ changes # {}) =>
                 changes \subseteq {<<"idle", "stopped">>, <<"error", "stopped">>}
           /\ (astate[a] = "stopped" /\ astate'[a] # "stopped") => ret'.op = "agent.start"
    ]_vars

\* manager and bus used together: the manager's own operations, agents
\* sending and receiving, and direct calls on the manager's bus
NextUnreg ==
  /\ impl = "socle"
  /\ \/ \E agent \in AgentObjs \cup {None} : MgrRegister(agent)
     \/ \E n \in BusNames : MgrUnregister(n)
     \/ \E n \in BusNames : BusUnregister(n)
     \/ BusRegister("B")
     \/ \E to \in BusNames : AgentSend("a1", to, "echo", 1, "normal")
     \/ AgentReceive("a2", 0)

SpecUnreg == Init /\ [][NextUnreg]_vars

\* what MessageBus.unregister_agent returns when it removes a registered name
UnregisterSuccessResult ==
  MessageBus_unregister_agent(MessageBus_register_agent(MessageBus_init, "A").w, "A").ret

RoutedNow(n) ==
  {sentLog'[i].ref : i \in {k \in (Len(sentLog) + 1)..Len(sentLog') : sentLog'[k].to = n}}

\* C13: the bus never buffers for an unregistered name. Unregistering a name
\* removes its mailbox with every message pending in it; registering a name
\* gives it an empty mailbox; a message enters a mailbox only in the step that
\* routes it and only if the name is registered at that moment (a send to an
\* unregistered name is rejected and held nowhere); and a receive returns only
\* a message pending in the name's current mailbox. So a message pending when
\* its name is unregistered is never returned later.
C13_NoBuffering ==
  [][ /\ (ret'.op = "bus.unregister_agent" /\ ret'.name \in DOMAIN queues) =>
           /\ ret'.name \notin DOMAIN queues'
           /\ ret'.name \notin Range(registered_agents')
      /\ (ret'.op = "bus.register_agent" /\ ret'.name \notin DOMAIN queues) =>
           /\ ret'.name \in DOMAIN queues'
           /\ queues'[ret'.name] = <<>>
      /\ \A n \in BusNames :
           /\ n \in DOMAIN queues' =>
                Range(queues'[n]) \ Range(Pending(n)) \subseteq RoutedNow(n)
           /\ n \notin DOMAIN queues => RoutedNow(n) = {}
           /\ (n \notin DOMAIN queues /\ n \in DOMAIN queues') =>
                (ret'.op = "bus.register_agent" /\ ret'.name = n)
      /\ (ret'.op = "bus.send_message" /\ ret'.to \notin DOMAIN queues) =>
           /\ ret'.result = FALSE
           /\ queues' = queues
      /\ (ret'.op = "bus.get_message" /\ ret'.result # NoMsg) =>
           ret'.result \in Range(Pending(ret'.name))
      /\ (ret'.op = "bus.get_message" /\ ret'.name \notin DOMAIN queues) =>
           ret'.result = NoMsg
    ]_vars

\* a name is registered again after it was unregistered with a message
\* pending: the message was neither received nor is it in the new mailbox
C13_Witness ==
  /\ ret.op = "bus.register_agent"
  /\ ret.log = "Agent enregistre"
  /\ queues[ret.name] = <<>>
  /\ \E i \in 1..Len(sentLog) :
        sentLog[i].to = ret.name /\ sentLog[i].ref \notin Range(recvLog[ret.name])

\* C14: AgentManager.register_agent. With None it returns False and changes
\* nothing. With an agent whose name is in the manager's registry it returns
\* False and leaves the manager's registry, the bus's registry, every mailbox
\* and the rejected agent's bus binding as they were. Otherwise it returns
\* True, and afterwards the name is registered on the bus, the agent is bound
\* to the bus, the name maps to that agent in the registry, and the mailboxes
\* that existed keep their messages.
C14_ManagerRegister ==
  [][ ret'.op = "manager.register_agent" =>
        LET agent == ret'.agent
        IN IF agent = None
           THEN /\ ret'.result = FALSE
                /\ UNCHANGED <<queues, registered_agents, history, agents, astate, abus>>
           ELSE IF NameOf(agent) \in ManagerRegistry
           THEN /\ ret'.result = FALSE
                /\ UNCHANGED <<queues, registered_agents, history, agents, astate, abus>>
           ELSE /\ ret'.result = TRUE
                /\ NameOf(agent) \in DOMAIN queues'
                /\ NameOf(agent) \in Range(registered_agents')
                /\ abus'[agent]
                /\ agent \in Range(agents')
                /\ AgentNamed(agents', NameOf(agent)) = agent
                /\ Range(agents') = Range(agents) \cup {agent}
                /\ \A n \in DOMAIN queues : n \in DOMAIN queues' /\ queues'[n] = queues[n]
                /\ \A b \in AgentObjs \ {agent} : abus'[b] = abus[b]
                /\ UNCHANGED <<history, astate>>
    ]_vars

\* a second, unbound agent named A was rejected while the registered agent
\* named A had a message pending
C14_Witness ==
  /\ ret.op = "manager.register_agent"
  /\ ret.agent = "a3"
  /\ ret.result = FALSE
  /\ ~abus["a3"]
  /\ "A" \in DOMAIN queues
  /\ queues["A"] # <<>>

\* the manager's bulk lifecycle operations over agents whose start() or
\* stop() may raise
NextBulk ==
  /\ impl = "socle"
  /\ \/ \E agent \in AgentObjs : MgrRegister(agent)
     \/ \E n \in BusNames : MgrUnregister(n)
     \/ MgrStartAll
     \/ MgrStopAll
     \/ \E failing \in SUBSET AgentObjs : MgrStartAllFailing(failing)
     \/ \E failing \in SUBSET AgentObjs : MgrStopAllFailing(failing)
     \/ \E a \in AgentObjs, outcome \in Outcomes : AgentHandle(a, outcome)

SpecBulk == Init /\ [][NextBulk]_vars

\* how many times a occurs in the sequence s
Occurrences(s, a) == Cardinality({i \in 1..Len(s) : s[i] = a})

\* C15: when start() (stop()) raises for some registered agents during
\* start_all() (stop_all()), the exception does not leave the bulk operation
\* and start() (stop()) is called exactly once on every registered agent; the
\* agents whose call did not raise are idle (stopped) afterwards.
C15_BulkIsolation ==
  (ret.op \in {"manager.start_all", "manager.stop_all"} /\ "failing" \in DOMAIN ret) =>
     /\ ~ret.escaped
     /\ \A a \in Range(agents) : Occurrences(ret.calls, a) = 1
     /\ Range(ret.calls) = Range(agents)
     /\ \A a \in Range(agents) \ ret.failing :
           astate[a] = IF ret.op = "manager.start_all" THEN "idle" ELSE "stopped"

\* start() raised for the first of two registered agents and the second,
\* which was stopped, is idle
C15_Witness ==
  /\ ret.op = "manager.start_all"
  /\ "failing" \in DOMAIN ret
  /\ Len(agents) = 2
  /\ agents[1] \in ret.failing
  /\ agents[2] \notin ret.failing
  /\ astate[agents[1]] = "stopped"
  /\ astate[agents[2]] = "idle"

\* a manager whose agents are started, fail in a handler, send to each
\* other, and which is shut down and used again
NextTeardown ==
  /\ impl = "socle"
  /\ \/ \E agent \in {"a1", "a2"} : MgrRegister(agent)
     \/ MgrStartAll
     \/ \E outcome \in {o \in Outcomes : o.raises /\ o.text = "boom"} : AgentHandle("a2", outcome)
     \/ \E to \in BusNames : AgentSend("a1", to, "echo", 1, "normal")
     \/ MgrShutdown

SpecTeardown == Init /\ [][NextTeardown]_vars

\* C16: shutdown() stops every registered agent before it resets the bus
\* (when the bus is reset every registered agent is stopped, and the bus is
\* still untouched when the agents have been stopped); after shutdown() every
\* agent that was registered is stopped and the bus is as just constructed:
\* no registered name, no mailbox, empty history, total-sent 0.
C16_OrderedTeardown ==
  [][ ret'.op = "manager.shutdown" =>
        /\ ret'.stopped_at_reset
        /\ ret'.bus_at_stop = "untouched"
        /\ \A a \in Range(agents) : astate'[a] = "stopped"
        /\ queues' = MessageBus_init.queues
        /\ registered_agents' = MessageBus_init.registered_agents
        /\ history' = MessageBus_init.history
        /\ queues' = <<>> /\ registered_agents' = <<>> /\ history' = <<>>
        /\ MessageBus_get_stats([queues |-> queues', registered_agents |-> registered_agents',
                                 history |-> history', heap |-> heap']).total_messages_sent = 0
    ]_vars

\* shutdown() has returned on a manager with two agents, one of which had
\* been started, after two messages had been routed
C16_Witness ==
  /\ ret.op = "manager.shutdown"
  /\ Len(agents) = 2
  /\ Len(sentLog) >= 2
  /\ \E a \in Range(agents) : astate[a] = "stopped" /\ a \in everStarted

\* C17: Agent.send_message of an agent without a bus returns no id and
\* changes no mailbox, history or registry. Of an agent with a bus it returns
\* the id it put in the message it built, whose sender is the agent's own
\* name, and it hands that message to the bus's send: the message is pending
\* for the receiver and recorded in the history exactly when the receiver is
\* registered, and the id is returned either way.
C17_AgentSend ==
  [][ ret'.op = "agent.send_message" =>
        LET a == ret'.agent
            to == ret'.to
        IN IF ~abus[a]
           THEN /\ ret'.result = NoId
                /\ UNCHANGED <<queues, registered_agents, history, heap>>
           ELSE /\ ret'.result # NoId
                /\ ret'.result = Agent_generate_message_id(a, now)
                /\ registered_agents' = registered_agents
                /\ IF to \in DOMAIN queues
                   THEN /\ Len(queues'[to]) = Len(queues[to]) + 1
                        /\ LET m == heap'[queues'[to][Len(queues'[to])]]
                           IN /\ m.message_id = ret'.result
                              /\ m.from = NameOf(a)
                              /\ m.to = to
                              /\ m.task = ret'.task
                              /\ m.payload = ret'.pay
                        /\ \A n \in DOMAIN queues \ {to} : queues'[n] = queues[n]
                        /\ Len(history') = Len(history) + 1
                        /\ history'[Len(history')].message_id = ret'.result
                        /\ history'[Len(history')].from = NameOf(a)
                   ELSE UNCHANGED <<queues, history>>
    ]_vars

\* an agent with a bus has sent a message that is now pending for B, and the
\* call returned that message's id
C17_Witness ==
  /\ ret.op = "agent.send_message"
  /\ ret.result # NoId
  /\ ret.to = "B"
  /\ "B" \in DOMAIN queues
  /\ queues["B"] # <<>>
  /\ heap[queues["B"][Len(queues["B"])]].message_id = ret.result

\* C18: the messages recorded in the bus history have pairwise distinct ids,
\* also when several of them were built within one clock tick.
C18_UniqueIds ==
  \A i, j \in 1..Len(history) :
     i # j => history[i].message_id # history[j].message_id

\* the limits a caller passes to get_history: None, 0, 1, 2
Limits == {[given |-> FALSE, n |-> 0]} \cup {[given |-> TRUE, n |-> k] : k \in 0..2}

\* two agents send to each other and to themselves while a caller reads the
\* history with every combination of limit and filters
NextHistory ==
  /\ impl = "socle"
  /\ \/ \E agent \in {"a1", "a2"} : MgrRegister(agent)
     \/ \E a \in {"a1", "a2"}, to \in BusNames : AgentSend(a, to, "echo", 1, "normal")
     \/ \E limit \in Limits, from_agent \in BusNames \cup {None},
          to_agent \in BusNames \cup {None} : BusGetHistory(limit, from_agent, to_agent)

SpecHistory == Init /\ [][NextHistory]_vars

\* the indices of the history entries that pass the filters (None: no filter)
MatchingEntries(from_agent, to_agent) ==
  {i \in 1..Len(history) :
     /\ from_agent # None => history[i].from = from_agent
     /\ to_agent # None => history[i].to = to_agent}

Min(a, b) == IF a < b THEN a ELSE b

\* C19: get_history(limit, from, to) returns, oldest first, exactly the
\* history entries whose sender and receiver pass the filters given, trimmed
\* to the last `limit` of them when a limit is given, so min(L, number of
\* matching entries) entries for a limit L >= 0; the stored history is left
\* unchanged.
C19_HistoryQuery ==
  [][ ret'.op = "bus.get_history" =>
        LET match == MatchingEntries(ret'.from, ret'.to)
            want == IF ret'.limit.given THEN Min(ret'.limit.n, Cardinality(match))
                    ELSE Cardinality(match)
            kept == {i \in match : Cardinality({k \in match : k >= i}) <= want}
            res == ret'.result
        IN /\ history' = history
           /\ Len(res) = want
           /\ \A i \in kept : res[Cardinality({k \in kept : k <= i})] = history[i]
    ]_vars

\* an agent that fails in a handler, is sent messages, handles further
\* messages, and is stopped and started
NextRecover ==
  /\ impl = "socle"
  /\ \/ \E agent \in {"a1", "a2"} : MgrRegister(agent)
     \/ \E outcome \in Outcomes : AgentHandle("a2", outcome)
     \/ \E to \in BusNames : AgentSend("a1", to, "echo", 1, "normal")
     \/ AgentReceive("a2", 0)
     \/ AgentStop("a2")
     \/ AgentStart("a2")

SpecRecover == Init /\ [][NextRecover]_vars

\* the registered agents in state "error"
InError == {a \in Range(agents) : astate[a] = "error"}

\* C20: an agent in state error stays registered and addressable: a handler
\* failure changes neither registry nor mailbox, and a send to a registered
\* agent in state error succeeds and is queued for it; the next
\* handle_message whose handler returns normally leaves the agent idle, and
\* stop() leaves it stopped.
C20_Recovery ==
  [][ /\ ret'.op = "agent.handle_message" =>
           /\ UNCHANGED <<agents, registered_agents, queues, abus>>
           /\ ret'.raises => astate'[ret'.agent] = "error"
      /\ \A a \in InError :
           /\ a \in Range(agents')
           /\ NameOf(a) \in DOMAIN queues => NameOf(a) \in DOMAIN queues'
           /\ (ret'.op = "agent.handle_message" /\ ret'.agent = a /\ ~ret'.raises) =>
                 astate'[a] = "idle"
           /\ (ret'.op = "agent.stop" /\ ret'.agent = a) => astate'[a] = "stopped"
           /\ (ret'.op = "agent.send_message" /\ ret'.to = NameOf(a) /\ abus[ret'.agent]
               /\ NameOf(a) \in DOMAIN queues) =>
                 /\ Len(queues'[NameOf(a)]) = Len(queues[NameOf(a)]) + 1
                 /\ LET q == queues'[NameOf(a)]
                    IN heap'[q[Len(q)]].message_id = ret'.result
                 /\ Len(history') = Len(history) + 1
                 /\ astate'[a] = "error"
    ]_vars

\* a message was sent to the registered agent B while B was in state error,
\* and it is pending in B's mailbox
C20_Witness ==
  /\ ret.op = "agent.send_message"
  /\ ret.to = "B"
  /\ "a2" \in Range(agents)
  /\ astate["a2"] = "error"
  /\ "B" \in DOMAIN queues
  /\ queues["B"] # <<>>
  /\ heap[queues["B"][Len(queues["B"])]].message_id = ret.result

\* caller thread c is inside Queue.get of receive_message on a registered,
\* empty mailbox
WaitingInReceive(c) ==
  /\ bus_calls[c].pc = "get"
  /\ bus_calls[c].name \in DOMAIN agent_queues
  /\ agent_queues[bus_calls[c].name] = <<>>

\* C21: in the threaded bus a thread waiting in receive_message on an empty
\* mailbox never holds the bus lock; the lock is only ever held by a thread
\* at a statement of the body of send_message or register_agent (none of
\* which waits for anything), so whenever a thread has arrived at the lock
\* for a send or a register while every other thread is idle or inside
\* receive_message, the lock is free and the call goes on to return.
C21_ReceiveHoldsNoLock ==
  /\ \A c \in Callers : WaitingInReceive(c) => lock # c
  /\ lock # 0 => /\ bus_calls[lock].op \in {"send", "register"}
                 /\ bus_calls[lock].pc \in {"check", "put", "append", "count", "exit"}
  /\ \A c \in Callers :
       (/\ bus_calls[c].pc = "lock"
        /\ \A d \in Callers \ {c} : bus_calls[d].pc \in {"idle", "get"}) => lock = 0

\* a send is in the middle of its critical section, holding the lock, while
\* another thread waits in receive_message on the empty mailbox of Frontend
C21_Witness ==
  \E c \in Callers, d \in Callers :
    /\ WaitingInReceive(c)
    /\ bus_calls[c].name = "Frontend"
    /\ lock = d
    /\ bus_calls[d].op = "send"
    /\ bus_calls[d].pc = "count"

\* the ids of the backend messages of sequence s
MessageIds(s) == [i \in 1..Len(s) |-> s[i].id]

\* the messages of the backend history addressed to name n
HistoryTo(n) == SelectSeq(message_history, LAMBDA m : m.receiver = n)

\* the message_id of the dicts the references of sequence s stand for
DictIds(s) == [i \in 1..Len(s) |-> heap[s[i]].message_id]

\* some thread is inside the critical section of the backend send_message
SendInCriticalSection ==
  \E c \in Callers : /\ bus_calls[c].op = "send"
                     /\ bus_calls[c].pc \in {"check", "put", "append", "count", "exit"}

\* some thread is inside send_message of communication/message_bus.py,
\* which has no critical section
SendInProgress == \E c \in Callers : bus_calls[c].pc # "idle"

\* the threaded bus, whenever no send is inside its critical section: the
\* counter equals the history length and, for every name, what was dequeued
\* followed by what is pending is the history of that name, in order
C22_ThreadedBus ==
  ~SendInCriticalSection =>
     /\ total_messages = Len(message_history)
     /\ \A n \in TNames :
          gotLog[n] \o MessageIds(BackendPending(n)) = MessageIds(HistoryTo(n))

\* the same for the bus of communication/message_bus.py, whenever no send
\* is in progress
C22_SocleBus ==
  ~SendInProgress =>
     \A n \in BusNames :
       DictIds(recvLog[n] \o Pending(n))
         = [i \in 1..Len(FilterBy(history, "to", n)) |->
              FilterBy(history, "to", n)[i].message_id]

\* C22: under concurrent senders a send is one atomic step, on both buses:
\* for every receiver the order in which its messages are dequeued is their
\* relative order in the history, and the total-sent counter equals the
\* history length whenever no send is inside its critical section.
C22_AtomicSend == C22_ThreadedBus /\ C22_SocleBus

\* two sends to Frontend by different threads are in the history of the
\* threaded bus, one of them dequeued, and no send is in its critical section
C22_ThreadedWitness ==
  /\ ~SendInCriticalSection
  /\ Len(message_history) >= 2
  /\ message_history[1].id # message_history[2].id
  /\ (message_history[1].id - message_history[2].id) % MaxCallers # 0
  /\ Len(gotLog["Frontend"]) >= 1

\* a handler call of a listener thread of agent a ends by raising in this step
HandlerRaises(a) ==
  \E i \in 1..Len(threads[a]) :
    /\ threads[a][i].pc = "handle"
    /\ threads'[a][i].pc # "handle"
    /\ threads'[a][i].failed
    /\ ~threads[a][i].failed

\* C23: a handler failure does not end the polling loop. The step in which
\* handle_message raises leaves that thread in the loop (at its sleep) and
\* changes nothing of the other agents (their mailboxes, threads and flags);
\* and once a handler of an agent has raised, every message pending in that
\* agent's mailbox is eventually dequeued and passed to handle_message, or
\* the agent is stopped.
C23_LoopSurvivesHandlerFailure ==
  /\ [][\A a \in TAgents :
          HandlerRaises(a) =>
            /\ \A i \in 1..Len(threads[a]) :
                 (threads[a][i].pc = "handle" /\ threads'[a][i].pc # "handle")
                   => threads'[a][i].pc = "sleep"
            /\ \A b \in TAgents \ {a} :
                 /\ agent_queues'[b] = agent_queues[b]
                 /\ threads'[b] = threads[b]
                 /\ is_running'[b] = is_running[b]]_vars
  /\ \A a \in TAgents, m \in 1..MaxMsgs :
       ((\E i \in 1..Len(threads[a]) : threads[a][i].failed)
          /\ m \in Range(MessageIds(agent_queues[a])))
       ~> ((\E i \in 1..Len(threads[a]) :
              threads[a][i].pc = "handle" /\ threads[a][i].msg = m)
           \/ ~is_running[a])

\* a handler of ChefProjet raised, and the same thread is now handling a
\* later message while the agent is still running
C23_Witness ==
  \E i \in 1..Len(threads["ChefProjet"]) :
    /\ threads["ChefProjet"][i].failed
    /\ threads["ChefProjet"][i].pc = "handle"
    /\ Len(gotLog["ChefProjet"]) >= 2
    /\ is_running["ChefProjet"]
    /\ Len(threads["ChefProjet"]) = 1

\* the listener threads of agent a that have not left _listen_loop
ActiveLoops(a) == {i \in 1..Len(threads[a]) : threads[a][i].pc # "done"}

\* C24: for any sequence of start() and stop() calls on a threaded agent, a
\* stop() whose join timed out included, at most one listener loop of the
\* agent is active at any time.
C24_SingleLoop == \A a \in TAgents : Cardinality(ActiveLoops(a)) <= 1

\* C25: cancellation of a threaded agent. Once stop() has cleared the flag
\* and no start() sets it again, every listener loop of the agent exits
\* (each handler call returns); between the clearing of the flag and its
\* exit a loop begins at most one more handler call; and stop() returns: its
\* join ends when the thread has ended or the 2 s have run out.
C25_Cancellation ==
  /\ \A a \in TAgents : <>[](~is_running[a]) => <>[](ActiveLoops(a) = {})
  /\ [](\A a \in TAgents : \A i \in 1..Len(threads[a]) : threads[a][i].late <= 1)
  /\ \A a \in TAgents : (joining = a) ~> (joining = None)

\* ChefProjet was stopped while its loop was inside receive_message; the loop
\* took one more message, handled it and has exited, and stop() has returned
C25_Witness ==
  /\ ~is_running["ChefProjet"]
  /\ joining = None
  /\ ret.op = "base_agent.stop" /\ ret.agent = "ChefProjet" /\ ret.returned
  /\ Len(threads["ChefProjet"]) = 1
  /\ threads["ChefProjet"][1].pc = "done"
  /\ threads["ChefProjet"][1].late = 1

\* C26: after any sequence of AgentManager operations the names in the
\* manager's registry are the names registered on its bus, and every agent
\* in the registry is bound to the bus and has a mailbox on it.
C26_RegistryConsistency ==
  /\ ManagerRegistry = Range(registered_agents)
  /\ ManagerRegistry = DOMAIN queues
  /\ \A a \in Range(agents) : abus[a] /\ NameOf(a) \in DOMAIN queues

\* C27: whenever Agent.send_message returns a message id (not None), a
\* message carrying that id was routed by the call: the call appended it to
\* the bus history and to the mailbox of the named receiver.
C27_ReportedMeansRouted ==
  [][ (ret'.op = "agent.send_message" /\ ret'.result # NoId) =>
        /\ Len(history') = Len(history) + 1
        /\ history'[Len(history')].message_id = ret'.result
        /\ ret'.to \in DOMAIN queues'
        /\ Len(queues'[ret'.to]) = Len(PendingIn(queues, ret'.to)) + 1
        /\ heap'[queues'[ret'.to][Len(queues'[ret'.to])]].message_id = ret'.result
    ]_vars

\* the references returned by the step for name n (bus of communication/)
ReturnedNow(n) == Range(recvLog'[n]) \ Range(recvLog[n])

\* the ids routed to name n, and returned for name n, by the step (backend)
BackendRoutedNow(n) ==
  {routedLog'[i].id : i \in {k \in (Len(routedLog) + 1)..Len(routedLog') :
                               routedLog'[k].receiver = n}}

BackendReturnedNow(n) == Range(gotLog'[n]) \ Range(gotLog[n])

\* s has no element twice
NoRepeat(s) == \A i, j \in 1..Len(s) : i # j => s[i] # s[j]

\* C28: message conservation, on both buses. The mailbox of a name is empty
\* when the name is registered; from then on, in every step, its pending
\* messages are the ones pending before plus the ones the step successfully
\* sent to the name minus the ones the step's receive returned for it, and a
\* step routes to a name only by a successful send to it and returns only a
\* pending message of the name asked for. In every state no message is
\* pending twice or was returned twice, none is both returned and pending,
\* every returned message was sent to the name it was returned for, and the
\* pending count get_stats reports for a registered name is the number of
\* its pending messages.
C28_Conservation ==
  /\ [](/\ \A n \in BusNames :
             /\ NoRepeat(recvLog[n] \o Pending(n))
             /\ \A i \in 1..Len(recvLog[n]) : heap[recvLog[n][i]].to = n
             /\ \A k \in BusNames \ {n} : Range(recvLog[n]) \cap Range(recvLog[k]) = {}
        /\ \A n \in Range(registered_agents) :
             /\ n \in DOMAIN queues
             /\ MessageBus_get_stats(World).pending_messages[n]
                  = Cardinality(Range(queues[n]))
        /\ \A n \in TNames :
             /\ NoRepeat(gotLog[n] \o MessageIds(BackendPending(n)))
             /\ \A i \in 1..Len(gotLog[n]) : routedLog[RoutedPos(gotLog[n][i])].receiver = n
             /\ \A k \in TNames \ {n} : Range(gotLog[n]) \cap Range(gotLog[k]) = {})
  /\ [][ /\ \A n \in BusNames :
              /\ (n \notin DOMAIN queues /\ n \in DOMAIN queues') => queues'[n] = <<>>
              /\ (n \in DOMAIN queues /\ n \in DOMAIN queues') =>
                    Range(queues'[n]) = (Range(queues[n]) \cup RoutedNow(n)) \ ReturnedNow(n)
              /\ RoutedNow(n) # {} =>
                    /\ ret'.op = "bus.send_message" /\ ret'.to = n /\ ret'.result
                    /\ n \in DOMAIN queues
                    /\ RoutedNow(n) \cap (Range(queues[n]) \cup Range(recvLog[n])) = {}
              /\ (ret'.op = "bus.send_message" /\ ret'.to = n /\ ret'.result) =>
                    Cardinality(RoutedNow(n)) = 1
              /\ ReturnedNow(n) # {} =>
                    /\ ret'.op = "bus.get_message" /\ ret'.name = n
                    /\ ReturnedNow(n) = {ret'.result}
                    /\ ret'.result \in Range(Pending(n))
              /\ (ret'.op = "bus.get_message" /\ ret'.name = n /\ ret'.result # NoMsg) =>
                    ReturnedNow(n) = {ret'.result}
         /\ \A n \in TNames :
              /\ (n \notin DOMAIN agent_queues /\ n \in DOMAIN agent_queues') =>
                    agent_queues'[n] = <<>>
              /\ (n \in DOMAIN agent_queues /\ n \in DOMAIN agent_queues') =>
                    Range(MessageIds(agent_queues'[n]))
                      = (Range(MessageIds(agent_queues[n])) \cup BackendRoutedNow(n))
                          \ BackendReturnedNow(n)
              /\ BackendRoutedNow(n) # {} =>
                    /\ ret'.op = "backend_bus.send_message" /\ ret'.to = n /\ ret'.result
                    /\ n \in DOMAIN agent_queues
              /\ (ret'.op = "backend_bus.send_message" /\ ret'.to = n /\ ret'.result) =>
                    Cardinality(BackendRoutedNow(n)) = 1
              /\ BackendReturnedNow(n) # {} =>
                    /\ ret'.op = "backend_bus.receive_message" /\ ret'.name = n
                    /\ BackendReturnedNow(n) = {ret'.result}
                    /\ ret'.result \in Range(MessageIds(BackendPending(n)))
              /\ (ret'.op = "backend_bus.receive_message" /\ ret'.name = n
                    /\ ret'.result # NoMsg) => BackendReturnedNow(n) = {ret'.result}
    ]_vars

\* B was unregistered with a message pending and registered again; of the two
\* messages sent to it since, one was returned by get_message and one is
\* pending, and get_stats reports one pending message for B
C28_Witness ==
  /\ ret.op = "bus.get_message" /\ ret.name = "B" /\ ret.result # NoMsg
  /\ "B" \in Range(registered_agents)
  /\ Len(recvLog["B"]) = 1
  /\ Len(queues["B"]) = 1
  /\ MessageBus_get_stats(World).pending_messages["B"] = 1
  /\ Cardinality({i \in 1..Len(sentLog) : sentLog[i].to = "B"}) = 3

\* C29: msg = agent.receive_message() followed by agent.handle_message(msg)
\* never lets an exception escape, whatever the mailbox holds: a message, or
\* nothing (empty mailbox, unregistered name, no bus bound).
C29_DispatchContained ==
  [][ret'.op = "agent.receive_then_handle" => ~ret'.escaped]_vars

\* with a message in the mailbox the sequence is contained, also when
\* process_task raises
C29_WithMessage ==
  [][(ret'.op = "agent.receive_then_handle" /\ ret'.msg # NoMsg)
       => (~ret'.escaped /\ (ret'.raises => ret'.result.status = "error"))]_vars

\* ---------------------------------------------------------------- C30
\* the ids a message of the workflow can carry: a request makes at most
\* four messages (Frontend -> ChefProjet -> worker -> ChefProjet -> Frontend)
FlowIds == 1..(4 * MaxRequests)

\* the message with id q is a request of Frontend to ChefProjet
IsRequest(q) ==
  \E m \in Range(message_history) :
    m.id = q /\ m.sender = "Frontend" /\ m.receiver = "ChefProjet"
             /\ m.message_type \in {"DATA_UPLOAD", "USER_MESSAGE"}

\* the messages routed to Frontend that descend from request q
ResponsesTo(q) ==
  {m \in Range(message_history) :
     m.receiver = "Frontend" /\ m.req = q
     /\ m.message_type \in {"DATA_VALIDATION", "AGENT_RESPONSE", "ERROR"}}

\* some handler call ended in an exception that _listen_loop caught
SomeHandlerFailed ==
  \E a \in BackendAgents : \E i \in 1..Len(threads[a]) : threads[a][i].failed

\* C30: in the threaded system, once Frontend is registered and the four
\* agents are started, every DATA_UPLOAD or USER_MESSAGE Frontend sends to
\* ChefProjet eventually leads to exactly one DATA_VALIDATION,
\* AGENT_RESPONSE or ERROR message routed to Frontend, never to more than
\* one, and also when the handler of an intermediate agent fails.
C30_RequestCompletion ==
  /\ [](\A q \in FlowIds : Cardinality(ResponsesTo(q)) <= 1)
  /\ \A q \in FlowIds : IsRequest(q) ~> (Cardinality(ResponsesTo(q)) = 1)

\* the part of C30 that the code does keep: a request is answered exactly
\* once unless a handler call of an intermediate agent raised
C30_CompletionUnlessFailure ==
  /\ [](\A q \in FlowIds : Cardinality(ResponsesTo(q)) <= 1)
  /\ \A q \in FlowIds :
       IsRequest(q) ~> (Cardinality(ResponsesTo(q)) = 1 \/ SomeHandlerFailed)

\* a request that went through Analyste and came back to Frontend
C30_AnsweredWitness ==
  \E q \in FlowIds :
    /\ IsRequest(q)
    /\ \E m \in Range(message_history) : m.req = q /\ m.sender = "Analyste"
    /\ \E m \in ResponsesTo(q) : m \in Range(agent_queues["Frontend"])

\* a request whose analysis raised: nothing was sent on, every mailbox is empty
C30_LostWitness ==
  \E q \in FlowIds :
    /\ IsRequest(q)
    /\ threads["Analyste"] # <<>> /\ threads["Analyste"][1].failed
    /\ ResponsesTo(q) = {}
    /\ \A n \in DOMAIN agent_queues : agent_queues[n] = <<>>

=============================================================================
